---- MODULE Spec2Model ----
(***************************************************************************)
(* Poly-Form: the LaTeX-subset renderer (the LaTeXRenderer component and   *)
(* its renderLaTeX pipeline).  Text is a TLA+ string; the regular          *)
(* expressions of the source are the operators below, each one matching    *)
(* as the JavaScript engine matches its pattern (leftmost, greedy or lazy  *)
(* as written, global and non-overlapping).  A glyph outside ASCII is      *)
(* written by its code point, "U+222B" for the integral sign.  The         *)
(* backend's handlers, the client's callApi and the chat panel follow the  *)
(* renderer.                                                               *)
(***************************************************************************)
EXTENDS Integers, Sequences, FiniteSets, TLC

VARIABLES content, view, calls, tables, requests, panel

vars == <<content, view, calls, tables, requests, panel>>

----------------------------------------------------------------------------
(* Strings *)

At(s, i) == SubSeq(s, i, i)

StartsAt(s, i, p) == i + Len(p) - 1 <= Len(s) /\ SubSeq(s, i, i + Len(p) - 1) = p

startsWith(s, p) == StartsAt(s, 1, p)

endsWith(s, p) == Len(p) <= Len(s) /\ SubSeq(s, Len(s) - Len(p) + 1, Len(s)) = p

From(s, i) == SubSeq(s, i, Len(s))

Min(S) == CHOOSE x \in S : \A y \in S : x <= y

Max(S) == CHOOSE x \in S : \A y \in S : x >= y

\* first index >= i at which p occurs in s, 0 when there is none
IndexOf(s, p, i) ==
  LET S == {k \in i..(Len(s) - Len(p) + 1) : SubSeq(s, k, k + Len(p) - 1) = p}
  IN IF S = {} THEN 0 ELSE Min(S)

includes(s, p) == IndexOf(s, p, 1) > 0

\* how often p stands in s
Count(s, p) == Cardinality({k \in 1..Len(s) : StartsAt(s, k, p)})

Digits == {"0", "1", "2", "3", "4", "5", "6", "7", "8", "9"}

\* the line terminators of the regular expression grammar (ASCII part)
LineTerminators == {"\n", "\r"}

\* \s and String.prototype.trim (ASCII part)
WhiteSpace == {" ", "\t", "\f"} \cup LineTerminators

\* first index >= i whose character is in C, Len(s) + 1 when there is none
Find(s, C, i) ==
  LET S == {k \in i..Len(s) : At(s, k) \in C}
  IN IF S = {} THEN Len(s) + 1 ELSE Min(S)

\* first index >= i whose character is not in C, Len(s) + 1 when there is none
Skip(s, C, i) ==
  LET S == {k \in i..Len(s) : At(s, k) \notin C}
  IN IF S = {} THEN Len(s) + 1 ELSE Min(S)

\* last index <= i whose character is not in C, 0 when there is none
SkipBack(s, C, i) ==
  LET S == {k \in 1..i : At(s, k) \notin C}
  IN IF S = {} THEN 0 ELSE Max(S)

trim(s) == SubSeq(s, Skip(s, WhiteSpace, 1), SkipBack(s, WhiteSpace, Len(s)))

\* String.prototype.split with a non-empty literal separator
RECURSIVE split(_, _)
split(s, sep) ==
  LET k == IndexOf(s, sep, 1) IN
  IF k = 0 THEN <<s>>
  ELSE <<SubSeq(s, 1, k - 1)>> \o split(From(s, k + Len(sep)), sep)

----------------------------------------------------------------------------
(* String.prototype.replace with a global pattern, one operator per shape  *)
(* of pattern the renderer uses.  Every pattern begins with a literal, so  *)
(* the scan from index i goes to the next place k where that literal       *)
(* stands: a match there is replaced and the scan goes on after it, and    *)
(* otherwise the scan goes on from k + 1.                                  *)

\* /lit/g -> rep
RECURSIVE ReplaceLit(_, _, _, _)
ReplaceLit(s, lit, rep, i) ==
  LET k == IndexOf(s, lit, i) IN
  IF k = 0 THEN From(s, i)
  ELSE SubSeq(s, i, k - 1) \o rep \o ReplaceLit(s, lit, rep, k + Len(lit))

\* /open(.*?)close/gs -> pre $1 post : the lazy body ends at the first close
RECURSIVE ReplaceLazy(_, _, _, _, _, _)
ReplaceLazy(s, open, close, pre, post, i) ==
  LET k == IndexOf(s, open, i) IN
  IF k = 0 THEN From(s, i)
  ELSE
    LET b == k + Len(open)
        e == IndexOf(s, close, b)
    IN
    IF e > 0
    THEN SubSeq(s, i, k - 1) \o pre \o SubSeq(s, b, e - 1) \o post
           \o ReplaceLazy(s, open, close, pre, post, e + Len(close))
    ELSE SubSeq(s, i, k) \o ReplaceLazy(s, open, close, pre, post, k + 1)

\* /open([^c]+)close/g -> pre $1 post, where close begins with the excluded
\* character c: the greedy run ends at the first c and cannot give back
RECURSIVE ReplaceRun(_, _, _, _, _, _, _)
ReplaceRun(s, open, c, close, pre, post, i) ==
  LET k == IndexOf(s, open, i) IN
  IF k = 0 THEN From(s, i)
  ELSE
    LET b == k + Len(open)
        e == Find(s, {c}, b)
    IN
    IF e > b /\ StartsAt(s, e, close)
    THEN SubSeq(s, i, k - 1) \o pre \o SubSeq(s, b, e - 1) \o post
           \o ReplaceRun(s, open, c, close, pre, post, e + Len(close))
    ELSE SubSeq(s, i, k) \o ReplaceRun(s, open, c, close, pre, post, k + 1)

\* /open(\d+)/g -> pre $1 post
RECURSIVE ReplaceDigits(_, _, _, _, _)
ReplaceDigits(s, open, pre, post, i) ==
  LET k == IndexOf(s, open, i) IN
  IF k = 0 THEN From(s, i)
  ELSE
    LET b == k + Len(open)
        e == Skip(s, Digits, b)
    IN
    IF e > b
    THEN SubSeq(s, i, k - 1) \o pre \o SubSeq(s, b, e - 1) \o post
           \o ReplaceDigits(s, open, pre, post, e)
    ELSE SubSeq(s, i, k) \o ReplaceDigits(s, open, pre, post, k + 1)

\* [^{}]*(?:\{[^{}]*\}[^{}]*)* followed by \} : from index i, text and
\* brace groups one level deep up to a closing brace at depth zero.  The
\* index of that brace, 0 when the text before it is nested deeper, a
\* group is left open or the input ends.
RECURSIVE MatchArg(_, _)
MatchArg(s, i) ==
  LET k == Find(s, {"{", "}"}, i) IN
  IF k > Len(s) THEN 0
  ELSE IF At(s, k) = "}" THEN k
  ELSE LET e == Find(s, {"{", "}"}, k + 1) IN
       IF e > Len(s) \/ At(s, e) = "{" THEN 0 ELSE MatchArg(s, e + 1)

\* ([^}]+)\} from index i: the index of the first closing brace, 0 when the
\* input has none or the run before it is empty
SimpleArg(s, i) ==
  LET k == Find(s, {"}"}, i) IN IF k > i /\ k <= Len(s) THEN k ELSE 0

\* /\\cmd\{(A)\}\{(A)\}/g, A the one-level-nesting argument above
RECURSIVE ReplaceFracNested(_, _, _, _, _, _)
ReplaceFracNested(s, open, pre, mid, post, i) ==
  LET k == IndexOf(s, open, i) IN
  IF k = 0 THEN From(s, i)
  ELSE
    LET b  == k + Len(open)
        e1 == MatchArg(s, b)
        e2 == IF e1 > 0 /\ StartsAt(s, e1, "}{") THEN MatchArg(s, e1 + 2) ELSE 0
    IN
    IF e2 > 0
    THEN SubSeq(s, i, k - 1) \o pre \o SubSeq(s, b, e1 - 1) \o mid
           \o SubSeq(s, e1 + 2, e2 - 1) \o post
           \o ReplaceFracNested(s, open, pre, mid, post, e2 + 1)
    ELSE SubSeq(s, i, k) \o ReplaceFracNested(s, open, pre, mid, post, k + 1)

\* /\\cmd\{([^}]+)\}\{([^}]+)\}/g
RECURSIVE ReplaceFracSimple(_, _, _, _, _, _)
ReplaceFracSimple(s, open, pre, mid, post, i) ==
  LET k == IndexOf(s, open, i) IN
  IF k = 0 THEN From(s, i)
  ELSE
    LET b  == k + Len(open)
        e1 == SimpleArg(s, b)
        e2 == IF e1 > 0 /\ StartsAt(s, e1, "}{") THEN SimpleArg(s, e1 + 2) ELSE 0
    IN
    IF e2 > 0
    THEN SubSeq(s, i, k - 1) \o pre \o SubSeq(s, b, e1 - 1) \o mid
           \o SubSeq(s, e1 + 2, e2 - 1) \o post
           \o ReplaceFracSimple(s, open, pre, mid, post, e2 + 1)
    ELSE SubSeq(s, i, k) \o ReplaceFracSimple(s, open, pre, mid, post, k + 1)

\* /\\sqrt\[([^}]+)\]\{([^}]+)\}/g : the greedy index runs to the first
\* closing brace e and gives back to the last "]{" that leaves the index and
\* the radicand non-empty
RECURSIVE ReplaceRootIndex(_, _, _, _, _, _)
ReplaceRootIndex(s, open, pre, mid, post, i) ==
  LET k == IndexOf(s, open, i) IN
  IF k = 0 THEN From(s, i)
  ELSE
    LET b == k + Len(open)
        e == Find(s, {"}"}, b)
        S == IF e <= Len(s) THEN {j \in (b + 1)..(e - 3) : StartsAt(s, j, "]{")} ELSE {}
    IN
    IF S # {}
    THEN SubSeq(s, i, k - 1) \o pre \o SubSeq(s, b, Max(S) - 1) \o mid
           \o SubSeq(s, Max(S) + 2, e - 1) \o post
           \o ReplaceRootIndex(s, open, pre, mid, post, e + 1)
    ELSE SubSeq(s, i, k) \o ReplaceRootIndex(s, open, pre, mid, post, k + 1)

\* /\n\s*\n/g -> rep : the greedy \s* gives back to the last newline of the
\* white-space run that follows the first newline
RECURSIVE ReplaceBlankLines(_, _, _)
ReplaceBlankLines(s, rep, i) ==
  LET k == IndexOf(s, "\n", i) IN
  IF k = 0 THEN From(s, i)
  ELSE
    LET S == {j \in (k + 1)..(Skip(s, WhiteSpace, k + 1) - 1) : At(s, j) = "\n"} IN
    IF S # {}
    THEN SubSeq(s, i, k - 1) \o rep \o ReplaceBlankLines(s, rep, Max(S) + 1)
    ELSE SubSeq(s, i, k) \o ReplaceBlankLines(s, rep, k + 1)

\* ^ under the m flag: the start of the input or just after a line terminator
LineStart(s, i) == i = 1 \/ At(s, i - 1) \in LineTerminators

\* first index >= i at a line start where p stands, 0 when there is none
IndexOfLine(s, p, i) ==
  LET S == {k \in i..(Len(s) - Len(p) + 1) : LineStart(s, k) /\ StartsAt(s, k, p)}
  IN IF S = {} THEN 0 ELSE Min(S)

\* /^open(.+)$/gm -> pre $1 post : (.+) is the non-empty rest of the line
RECURSIVE ReplaceLine(_, _, _, _, _)
ReplaceLine(s, open, pre, post, i) ==
  LET k == IndexOfLine(s, open, i) IN
  IF k = 0 THEN From(s, i)
  ELSE
    LET b == k + Len(open)
        e == Find(s, LineTerminators, b)
    IN
    IF e > b
    THEN SubSeq(s, i, k - 1) \o pre \o SubSeq(s, b, e - 1) \o post
           \o ReplaceLine(s, open, pre, post, e)
    ELSE SubSeq(s, i, k) \o ReplaceLine(s, open, pre, post, k + 1)

\* first index >= i at a line start where a digit stands, 0 when none
IndexOfDigitLine(s, i) ==
  LET S == {k \in i..Len(s) : LineStart(s, k) /\ At(s, k) \in Digits}
  IN IF S = {} THEN 0 ELSE Min(S)

\* /^\d+\. (.+)$/gm -> pre $1 post
RECURSIVE ReplaceNumbered(_, _, _, _)
ReplaceNumbered(s, pre, post, i) ==
  LET k == IndexOfDigitLine(s, i) IN
  IF k = 0 THEN From(s, i)
  ELSE
    LET d == Skip(s, Digits, k)
        b == d + 2
        e == IF StartsAt(s, d, ". ") THEN Find(s, LineTerminators, b) ELSE 0
    IN
    IF e > b
    THEN SubSeq(s, i, k - 1) \o pre \o SubSeq(s, b, e - 1) \o post
           \o ReplaceNumbered(s, pre, post, e)
    ELSE SubSeq(s, i, k) \o ReplaceNumbered(s, pre, post, k + 1)

----------------------------------------------------------------------------
(* The rule tables *)

SYMBOL_REPLACEMENTS == <<
    <<"\\int", "U+222B">>,
    <<"\\iint", "U+222C">>,
    <<"\\iiint", "U+222D">>,
    <<"\\oint", "U+222E">>,
    <<"\\partial", "U+2202">>,
    <<"\\nabla", "U+2207">>,
    <<"\\Delta", "U+0394">>,
    <<"\\alpha", "U+03B1">>,
    <<"\\beta", "U+03B2">>,
    <<"\\gamma", "U+03B3">>,
    <<"\\delta", "U+03B4">>,
    <<"\\epsilon", "U+03B5">>,
    <<"\\zeta", "U+03B6">>,
    <<"\\eta", "U+03B7">>,
    <<"\\theta", "U+03B8">>,
    <<"\\iota", "U+03B9">>,
    <<"\\kappa", "U+03BA">>,
    <<"\\lambda", "U+03BB">>,
    <<"\\mu", "U+03BC">>,
    <<"\\nu", "U+03BD">>,
    <<"\\xi", "U+03BE">>,
    <<"\\pi", "U+03C0">>,
    <<"\\rho", "U+03C1">>,
    <<"\\sigma", "U+03C3">>,
    <<"\\tau", "U+03C4">>,
    <<"\\upsilon", "U+03C5">>,
    <<"\\phi", "U+03C6">>,
    <<"\\chi", "U+03C7">>,
    <<"\\psi", "U+03C8">>,
    <<"\\omega", "U+03C9">>,
    <<"\\Gamma", "U+0393">>,
    <<"\\Theta", "U+0398">>,
    <<"\\Lambda", "U+039B">>,
    <<"\\Xi", "U+039E">>,
    <<"\\Pi", "U+03A0">>,
    <<"\\Sigma", "U+03A3">>,
    <<"\\Upsilon", "U+03A5">>,
    <<"\\Phi", "U+03A6">>,
    <<"\\Psi", "U+03A8">>,
    <<"\\Omega", "U+03A9">>,
    <<"\\pm", "U+00B1">>,
    <<"\\times", "U+00D7">>,
    <<"\\div", "U+00F7">>,
    <<"\\cdot", "U+00B7">>,
    <<"\\sum", "U+2211">>,
    <<"\\prod", "U+220F">>,
    <<"\\bigcup", "U+22C3">>,
    <<"\\bigcap", "U+22C2">>,
    <<"\\bigoplus", "U+2A01">>,
    <<"\\bigotimes", "U+2A02">>,
    <<"\\cap", "U+2229">>,
    <<"\\cup", "U+222A">>,
    <<"\\leq", "U+2264">>,
    <<"\\geq", "U+2265">>,
    <<"\\neq", "U+2260">>,
    <<"\\approx", "U+2248">>,
    <<"\\equiv", "U+2261">>,
    <<"\\sim", "U+223C">>,
    <<"\\cong", "U+2245">>,
    <<"\\propto", "U+221D">>,
    <<"\\subset", "U+2282">>,
    <<"\\subseteq", "U+2286">>,
    <<"\\supset", "U+2283">>,
    <<"\\supseteq", "U+2287">>,
    <<"\\in", "U+2208">>,
    <<"\\notin", "U+2209">>,
    <<"\\forall", "U+2200">>,
    <<"\\exists", "U+2203">>,
    <<"\\neg", "U+00AC">>,
    <<"\\land", "U+2227">>,
    <<"\\lor", "U+2228">>,
    <<"\\implies", "U+21D2">>,
    <<"\\iff", "U+21D4">>,
    <<"\\to", "U+2192">>,
    <<"\\rightarrow", "U+2192">>,
    <<"\\leftarrow", "U+2190">>,
    <<"\\uparrow", "U+2191">>,
    <<"\\downarrow", "U+2193">>,
    <<"\\leftrightarrow", "U+2194">>,
    <<"\\Rightarrow", "U+21D2">>,
    <<"\\Leftarrow", "U+21D0">>,
    <<"\\Leftrightarrow", "U+21D4">>,
    <<"\\mapsto", "U+21A6">>,
    <<"\\hookrightarrow", "U+21AA">>,
    <<"\\hookleftarrow", "U+21A9">>,
    <<"\\nearrow", "U+2197">>,
    <<"\\searrow", "U+2198">>,
    <<"\\swarrow", "U+2199">>,
    <<"\\nwarrow", "U+2196">>,
    <<"\\{", "{">>,
    <<"\\}", "}">>,
    <<"\\lbrace", "{">>,
    <<"\\rbrace", "}">>,
    <<"\\lfloor", "U+230A">>,
    <<"\\rfloor", "U+230B">>,
    <<"\\lceil", "U+2308">>,
    <<"\\rceil", "U+2309">>,
    <<"\\emptyset", "U+2205">>,
    <<"\\infty", "U+221E">>,
    <<"\\aleph", "U+2135">>,
    <<"\\hbar", "U+210F">>,
    <<"\\ell", "U+2113">>,
    <<"\\wp", "U+2118">>,
    <<"\\Re", "U+211C">>,
    <<"\\Im", "U+2111">>,
    <<"\\angle", "U+2220">>,
    <<"\\top", "U+22A4">>,
    <<"\\bot", "U+22A5">>,
    <<"\\vdash", "U+22A2">>,
    <<"\\dashv", "U+22A3">>,
    <<"\\models", "U+22A8">>,
    <<"\\therefore", "U+2234">>,
    <<"\\because", "U+2235">>,
    <<"\\QED", "U+220E">>,
    <<"\\blacksquare", "U+220E">>,
    <<"\\triangle", "U+25B3">>,
    <<"\\oplus", "U+2295">>,
    <<"\\otimes", "U+2297">>,
    <<"\\odot", "U+2299">>
>>

BLACKBOARD_BOLD == <<
    <<"R", "U+211D">>, <<"N", "U+2115">>, <<"Z", "U+2124">>, <<"Q", "U+211A">>,
    <<"C", "U+2102">>, <<"H", "U+210D">>, <<"P", "U+2119">> >>

functions == <<"det", "dim", "ker", "deg", "arg", "exp", "log", "ln", "sin", "cos", "tan", "lim">>

----------------------------------------------------------------------------
(* renderMatrix *)

RECURSIVE MatrixCells(_)
MatrixCells(cells) ==
  IF cells = <<>> THEN ""
  ELSE "<td>" \o trim(Head(cells)) \o "</td>" \o MatrixCells(Tail(cells))

RECURSIVE MatrixRows(_)
MatrixRows(rows) ==
  IF rows = <<>> THEN ""
  ELSE "<tr>" \o MatrixCells(split(trim(Head(rows)), "&")) \o "</tr>"
         \o MatrixRows(Tail(rows))

\* variant: rows and cells cut at the tokens but not trimmed
RECURSIVE rawCells(_)
rawCells(cells) ==
  IF cells = <<>> THEN ""
  ELSE "<td>" \o Head(cells) \o "</td>" \o rawCells(Tail(cells))

RECURSIVE rawRows(_)
rawRows(rows) ==
  IF rows = <<>> THEN ""
  ELSE "<tr>" \o rawCells(split(Head(rows), "&")) \o "</tr>" \o rawRows(Tail(rows))

renderMatrixUntrimmed(body, className) ==
  "<table class=\"math-matrix " \o className \o "\"><tbody>"
    \o rawRows(split(body, "\\\\")) \o "</tbody></table>"

renderMatrix(body, className) ==
  "<table class=\"math-matrix " \o className \o "\"><tbody>"
    \o MatrixRows(split(trim(body), "\\\\")) \o "</tbody></table>"

\* /\\begin\{env\}(.*?)\\end\{env\}/gs with renderMatrix as the replacer
RECURSIVE ReplaceMatrix(_, _, _, _)
ReplaceMatrix(s, env, className, i) ==
  LET open  == "\\begin{" \o env \o "}"
      close == "\\end{" \o env \o "}"
      k == IndexOf(s, open, i)
  IN
  IF k = 0 THEN From(s, i)
  ELSE
    LET b == k + Len(open)
        e == IndexOf(s, close, b)
    IN
    IF e > 0
    THEN SubSeq(s, i, k - 1) \o renderMatrix(SubSeq(s, b, e - 1), className)
           \o ReplaceMatrix(s, env, className, e + Len(close))
    ELSE SubSeq(s, i, k) \o ReplaceMatrix(s, env, className, k + 1)

----------------------------------------------------------------------------
(* renderLaTeX: every statement result = result.replace(pattern, by) is a  *)
(* pass, and the function is its passes in source order.                   *)

Pass(kind, open, close, pre, mid, post) ==
  [kind |-> kind, open |-> open, close |-> close, pre |-> pre, mid |-> mid, post |-> post]

Apply(s, p) ==
  CASE p.kind = "lit"        -> ReplaceLit(s, p.open, p.pre, 1)
    [] p.kind = "lazy"       -> ReplaceLazy(s, p.open, p.close, p.pre, p.post, 1)
    [] p.kind = "run"        -> ReplaceRun(s, p.open, At(p.close, 1), p.close, p.pre, p.post, 1)
    [] p.kind = "digits"     -> ReplaceDigits(s, p.open, p.pre, p.post, 1)
    [] p.kind = "matrix"     -> ReplaceMatrix(s, p.open, p.pre, 1)
    [] p.kind = "fracNested" -> ReplaceFracNested(s, p.open, p.pre, p.mid, p.post, 1)
    [] p.kind = "fracSimple" -> ReplaceFracSimple(s, p.open, p.pre, p.mid, p.post, 1)
    [] p.kind = "rootIndex"  -> ReplaceRootIndex(s, p.open, p.pre, p.mid, p.post, 1)
    [] p.kind = "blankLines" -> ReplaceBlankLines(s, p.pre, 1)
    [] p.kind = "line"       -> ReplaceLine(s, p.open, p.pre, p.post, 1)
    [] p.kind = "numbered"   -> ReplaceNumbered(s, p.pre, p.post, 1)

\* passes[lo..hi] applied in order, each to the value the one before it left
\* in result (the range is halved to keep the evaluation shallow)
RECURSIVE RunPasses(_, _, _, _)
RunPasses(result, passes, lo, hi) ==
  IF lo > hi THEN result
  ELSE IF lo = hi THEN Apply(result, passes[lo])
  ELSE LET mid == (lo + hi) \div 2 IN
       CHOOSE out \in {RunPasses(r, passes, mid + 1, hi) :
                         r \in {RunPasses(result, passes, lo, mid)}} : TRUE

\* variant: the display wrapper opened at every bracket opening, closed or not
MathDelimitersEager == <<
  Pass("lazy", "\\[", "\\]", "<div class=\"math-display\">", "", "</div>"),
  Pass("lazy", "\\(", "\\)", "<span class=\"math-inline\">", "", "</span>"),
  Pass("run", "$$", "$$", "<div class=\"math-display\">", "", "</div>"),
  Pass("run", "$", "$", "<span class=\"math-inline\">", "", "</span>"),
  Pass("lit", "\\[", "", "<div class=\"math-display\">", "", "") >>

MathDelimiters == <<
  Pass("lazy", "\\[", "\\]", "<div class=\"math-display\">", "", "</div>"),
  Pass("lazy", "\\(", "\\)", "<span class=\"math-inline\">", "", "</span>"),
  Pass("run", "$$", "$$", "<div class=\"math-display\">", "", "</div>"),
  Pass("run", "$", "$", "<span class=\"math-inline\">", "", "</span>") >>

Accent(name) ==
  Pass("run", "\\" \o name \o "{", "}", "<span class=\"math-" \o name \o "\">", "", "</span>")

Accents == <<Accent("overline"), Accent("underline"), Accent("hat"), Accent("tilde"),
             Accent("vec"), Accent("dot"), Accent("ddot")>>

Matrix(env, className) == Pass("matrix", env, "", className, "", "")

Matrices == <<Matrix("pmatrix", "math-pmatrix"), Matrix("bmatrix", "math-bmatrix"),
              Matrix("matrix", ""), Matrix("vmatrix", "math-vmatrix"),
              Matrix("Vmatrix", "math-Vmatrix")>>

fractionReplacement(kind, open) ==
  Pass(kind, open, "", "<span class=\"math-frac\"><span class=\"math-num\">",
       "</span><span class=\"math-den\">", "</span></span>")

\* variant: only the patterns with one level of nested braces, the two
\* plain patterns after them left out
FractionsNestedOnly == <<fractionReplacement("fracNested", "\\dfrac{"),
                         fractionReplacement("fracNested", "\\frac{")>>

\* variant: the \frac patterns alone, as in the basic component
FractionsFracOnly == <<fractionReplacement("fracNested", "\\frac{"),
                       fractionReplacement("fracSimple", "\\frac{")>>

Fractions == <<fractionReplacement("fracNested", "\\dfrac{"),
               fractionReplacement("fracNested", "\\frac{"),
               fractionReplacement("fracSimple", "\\dfrac{"),
               fractionReplacement("fracSimple", "\\frac{")>>

BlackboardPasses(table) ==
  [n \in 1..Len(table) |->
     Pass("lit", "\\mathbb{" \o table[n][1] \o "}", "",
          "<span class=\"math-bb\">" \o table[n][2] \o "</span>", "", "")]

Blackboard == BlackboardPasses(BLACKBOARD_BOLD)

\* variant: the one-argument pattern alone
RootsPlainOnly == <<Pass("run", "\\sqrt{", "}", "U+221A(", "", ")")>>

Roots == <<
  Pass("run", "\\sqrt{", "}", "U+221A(", "", ")"),
  Pass("rootIndex", "\\sqrt[", "", "<span class=\"math-root\"><sup>", "</sup>U+221A(",
       ")</span>") >>

SymbolPasses(table) ==
  [n \in 1..Len(table) |-> Pass("lit", table[n][1], "", table[n][2], "", "")]

Symbols == SymbolPasses(SYMBOL_REPLACEMENTS)

Functions ==
  [n \in 1..Len(functions) |->
     Pass("lit", "\\" \o functions[n], "",
          "<span class=\"math-func\">" \o functions[n] \o "</span>", "", "")]

\* variant: the braced forms alone, a caret or underscore before digits
\* left as it stands
ScriptsBracedOnly == <<
  Pass("run", "^{", "}", "<sup>", "", "</sup>"),
  Pass("run", "_{", "}", "<sub>", "", "</sub>") >>

Scripts == <<
  Pass("digits", "^", "", "<sup>", "", "</sup>"),
  Pass("run", "^{", "}", "<sup>", "", "</sup>"),
  Pass("digits", "_", "", "<sub>", "", "</sub>"),
  Pass("run", "_{", "}", "<sub>", "", "</sub>") >>

TextFormatting == <<
  Pass("run", "\\textbf{", "}", "<strong>", "", "</strong>"),
  Pass("run", "\\textit{", "}", "<em>", "", "</em>"),
  Pass("run", "**", "**", "<strong>", "", "</strong>"),
  Pass("run", "*", "*", "<em>", "", "</em>") >>

ParagraphOpen == "<p class=\"mb-4\">"

Paragraphs == <<
  Pass("blankLines", "", "", "</p>" \o ParagraphOpen, "", ""),
  Pass("lit", "\\\\", "", "<br class=\"mb-2\">", "", "") >>

HeadingOpen(k) ==
  CASE k = 3 -> "<h3 class=\"text-lg font-semibold text-gray-900 mt-6 mb-3\">"
    [] k = 2 -> "<h2 class=\"text-xl font-semibold text-gray-900 mt-8 mb-4\">"
    [] k = 1 -> "<h1 class=\"text-2xl font-bold text-gray-900 mt-10 mb-5\">"

HeadingClose(k) == CASE k = 3 -> "</h3>" [] k = 2 -> "</h2>" [] k = 1 -> "</h1>"

Heading(k, marks) ==
  Pass("line", marks \o " ", "", "</p>" \o HeadingOpen(k), "", HeadingClose(k) \o ParagraphOpen)

\* variant: headings put in place of their line, the paragraph around them
\* neither closed nor opened again
HeadingInPlace(k, marks) ==
  Pass("line", marks \o " ", "", HeadingOpen(k), "", HeadingClose(k))

HeadingsInPlace == <<HeadingInPlace(3, "###"), HeadingInPlace(2, "##"), HeadingInPlace(1, "#")>>

Headings == <<Heading(3, "###"), Heading(2, "##"), Heading(1, "#")>>

Lists == <<
  Pass("line", "- ", "", "<li class=\"ml-6 mb-2\">U+2022 ", "", "</li>"),
  Pass("numbered", "", "", "<li class=\"ml-6 mb-2 list-decimal\">", "", "</li>") >>

Statements ==
  MathDelimiters \o Accents \o Matrices \o Fractions \o Blackboard \o Roots
    \o Symbols \o Functions \o Scripts \o TextFormatting \o Paragraphs
    \o Headings \o Lists

renderLaTeX(text) == RunPasses(text, Statements, 1, Len(Statements))

----------------------------------------------------------------------------
(* The LaTeXRenderer component.  A prop value is a record: a string, null  *)
(* or undefined.  What the component gives back is the placeholder         *)
(* element, the element whose inner HTML is the final markup, or nothing   *)
(* when the call raised.                                                   *)

Str(s) == [type |-> "string", str |-> s]
Null == [type |-> "null", str |-> ""]
Undefined == [type |-> "undefined", str |-> ""]

NotRendered == [kind |-> "none", html |-> "", by |-> "none"]
Thrown(c) == [kind |-> "error", html |-> "TypeError", by |-> c]
Placeholder(c) == [kind |-> "placeholder", html |-> "No content to render", by |-> c]
Markup(c, h) == [kind |-> "html", html |-> h, by |-> c]

\* the paragraph wrapping of the final markup
WrapParagraph(rendered) ==
  LET opened == IF ~startsWith(rendered, "<p") /\ ~startsWith(rendered, "<h")
                   /\ ~startsWith(rendered, "<div") /\ ~startsWith(rendered, "<table")
                THEN ParagraphOpen \o rendered ELSE rendered
  IN IF ~endsWith(opened, "</p>") /\ ~endsWith(opened, "</div>")
        /\ ~endsWith(opened, "</table>") /\ ~includes(opened, "<br")
     THEN opened \o "</p>" ELSE opened

\* variant: a component that raises when the braces of its prop do not pair up
LaTeXRendererStrict(c) ==
  LET safeContent == IF c.type = "string" THEN c.str ELSE "" IN
  IF trim(safeContent) = "" THEN Placeholder("LaTeXRenderer")
  ELSE IF Count(safeContent, "{") # Count(safeContent, "}") THEN Thrown("LaTeXRenderer")
  ELSE Markup("LaTeXRenderer", WrapParagraph(renderLaTeX(trim(safeContent))))

\* variant: a component that renders its own markup once more before it
\* returns it
LaTeXRendererTwice(c) ==
  LET safeContent == IF c.type = "string" THEN c.str ELSE "" IN
  IF trim(safeContent) = "" THEN Placeholder("LaTeXRenderer")
  ELSE Markup("LaTeXRenderer",
              WrapParagraph(renderLaTeX(trim(
                WrapParagraph(renderLaTeX(trim(safeContent)))))))

LaTeXRenderer(c) ==
  LET safeContent == IF c.type = "string" THEN c.str ELSE "" IN
  IF trim(safeContent) = "" THEN Placeholder("LaTeXRenderer")
  ELSE Markup("LaTeXRenderer", WrapParagraph(renderLaTeX(trim(safeContent))))

----------------------------------------------------------------------------
(* The basic LaTeXRenderer component (components/LaTeXRenderer.tsx): its   *)
(* renderLaTeX is one chain of replace calls, and it hands the prop to it  *)
(* as it comes.                                                            *)

BasicSymbols == <<
    <<"\\pm", "U+00B1">>, <<"\\times", "U+00D7">>, <<"\\div", "U+00F7">>,
    <<"\\cdot", "U+00B7">>, <<"\\alpha", "U+03B1">>, <<"\\beta", "U+03B2">>,
    <<"\\gamma", "U+03B3">>, <<"\\delta", "U+03B4">>, <<"\\epsilon", "U+03B5">>,
    <<"\\pi", "U+03C0">>, <<"\\sigma", "U+03C3">>, <<"\\theta", "U+03B8">>,
    <<"\\lambda", "U+03BB">>, <<"\\mu", "U+03BC">>, <<"\\nabla", "U+2207">>,
    <<"\\partial", "U+2202">>, <<"\\int", "U+222B">>, <<"\\sum", "U+2211">>,
    <<"\\prod", "U+220F">>, <<"\\infty", "U+221E">>, <<"\\leq", "U+2264">>,
    <<"\\geq", "U+2265">>, <<"\\neq", "U+2260">>, <<"\\approx", "U+2248">>,
    <<"\\equiv", "U+2261">> >>

BasicHeading(k, marks, class) ==
  Pass("line", marks \o " ", "", "<h" \o class, "", HeadingClose(k))

BasicStatements ==
  << Pass("run", "$", "$", "<span class=\"math-inline\">", "", "</span>"),
     Pass("run", "$$", "$$", "<div class=\"math-display\">", "", "</div>"),
     Pass("fracSimple", "\\frac{", "", "<span class=\"math-frac\"><span class=\"math-num\">",
          "</span>/<span class=\"math-den\">", "</span></span>"),
     Pass("run", "\\sqrt{", "}", "U+221A(", "", ")") >>
  \o [n \in 1..Len(BasicSymbols) |->
        Pass("lit", BasicSymbols[n][1], "", BasicSymbols[n][2], "", "")]
  \o Scripts
  \o << Pass("run", "\\textbf{", "}", "<strong>", "", "</strong>"),
        Pass("run", "\\textit{", "}", "<em>", "", "</em>"),
        Pass("lit", "\\\\", "", "<br>", "", ""),
        Pass("run", "**", "**", "<strong>", "", "</strong>"),
        Pass("run", "*", "*", "<em>", "", "</em>"),
        BasicHeading(3, "###", "3 class=\"text-lg font-semibold text-gray-900 mt-4 mb-2\">"),
        BasicHeading(2, "##", "2 class=\"text-xl font-semibold text-gray-900 mt-6 mb-3\">"),
        BasicHeading(1, "#", "1 class=\"text-2xl font-bold text-gray-900 mt-8 mb-4\">"),
        Pass("line", "- ", "", "<li class=\"ml-4\">U+2022 ", "", "</li>"),
        Pass("numbered", "", "", "<li class=\"ml-4 list-decimal\">", "", "</li>") >>

renderLaTeXBasic(text) == RunPasses(text, BasicStatements, 1, Len(BasicStatements))

\* text.replace on a prop that is no string raises a TypeError
LaTeXRendererBasic(c) ==
  IF c.type # "string" THEN Thrown("LaTeXRendererBasic")
  ELSE Markup("LaTeXRendererBasic", renderLaTeXBasic(c.str))

----------------------------------------------------------------------------
(* The state machine: a parent mounts the component with a content prop,   *)
(* and the component function is called on it once.                        *)

\* the module-level tables, which every call of renderLaTeX reads, and the
\* lastIndex of the pattern objects the symbol table holds
Tables == [symbols |-> SYMBOL_REPLACEMENTS, blackboard |-> BLACKBOARD_BOLD, lastIndex |-> 0]

\* no call of renderLaTeX apart from the component's own
NoCalls == <<>>

\* no call of the client API
NoRequests == <<>>

\* the chat panel is not on the page
NoPanel == [mounted |-> FALSE]

Mount(inputs) ==
  /\ content \in inputs /\ view = NotRendered /\ calls = NoCalls /\ tables = Tables
  /\ requests = NoRequests /\ panel = NoPanel

\* the LaTeXRenderer of the rule tables is called on the prop
Render ==
  /\ view.kind = "none"
  /\ view' = LaTeXRenderer(content)
  /\ UNCHANGED <<content, calls, tables, requests, panel>>

\* the basic LaTeXRenderer is called on the prop
RenderBasic ==
  /\ view.kind = "none"
  /\ view' = LaTeXRendererBasic(content)
  /\ UNCHANGED <<content, calls, tables, requests, panel>>

\* the markup of the view is given back to the component as its prop
Rerender ==
  /\ view.kind = "html" /\ view.by = "LaTeXRenderer"
  /\ view' = [LaTeXRenderer(Str(view.html)) EXCEPT !.by = "Rerender"]
  /\ UNCHANGED <<content, calls, tables, requests, panel>>

Rendered == view.kind # "none"

\* the markup of the view is the paragraph-wrapped body
Paragraph(body) == "<p class=\"mb-4\">" \o body \o "</p>"

\* the examples of the specification and of the README
Examples == {
  "Energy: $E = mc^2$", "\\frac{1}{2}", "\\frac{\\frac{a}{b}}{c}",
  "\\begin{pmatrix} 1 & 2 \\\\ 3 & 4 \\end{pmatrix}", "## Title",
  "$E = mc^2$", "\\[ \\int_{0}^{\\infty} e^{-x^2} dx \\]" }

Init == Mount({Str(s) : s \in Examples} \cup {Null, Undefined})

Next == Render \/ RenderBasic

Spec == Init /\ [][Next]_vars

----------------------------------------------------------------------------
(* Symbol table: every command renders as its own glyph *)

Commands == {SYMBOL_REPLACEMENTS[n][1] : n \in 1..Len(SYMBOL_REPLACEMENTS)}

Glyph(cmd) ==
  SYMBOL_REPLACEMENTS[CHOOSE n \in 1..Len(SYMBOL_REPLACEMENTS) :
                        SYMBOL_REPLACEMENTS[n][1] = cmd][2]

\* the commands tried next to one another: the four prefix pairs of the
\* table and two commands that are prefixes of nothing
AdjacentCommands == {"\\in", "\\infty", "\\to", "\\top", "\\subset", "\\subseteq",
                     "\\supset", "\\supseteq", "\\int", "\\alpha"}

Separators == {"", " "}

SymbolInputs ==
  {Str(c) : c \in Commands}
    \cup {Str(a \o sep \o b) : a \in AdjacentCommands, b \in AdjacentCommands, sep \in Separators}

SpecSymbols == Mount(SymbolInputs) /\ [][Render]_vars

\* C1: every command of the symbol table, alone or next to another command
\* of the same input, renders as exactly its own glyph; a shorter entry
\* never eats the head of a longer command.
C1_EveryCommandItsOwnGlyph ==
  Rendered =>
    /\ \A c \in Commands :
         content = Str(c) => view.html = Paragraph(Glyph(c))
    /\ \A a \in AdjacentCommands, b \in AdjacentCommands, sep \in Separators :
         content = Str(a \o sep \o b) =>
           view.html = Paragraph(Glyph(a) \o sep \o Glyph(b))

\* the commands that have an earlier table entry as a strict prefix
Shadowed == {"\\infty", "\\top", "\\subseteq", "\\supseteq"}

\* what the table does: the four shadowed commands lose their head to
\* the shorter entry, and every other command renders as its own glyph.
C1_OnlyShadowedCommandsBreak ==
  Rendered =>
    \A c \in Commands :
      content = Str(c) => (view.html = Paragraph(Glyph(c)) <=> c \notin Shadowed)

----------------------------------------------------------------------------
(* Fractions *)

\* the fraction unit the claims expect: one wrapper, a numerator element
\* and a denominator element
FractionUnit(num, den) ==
  "<span class=\"math-frac\"><span class=\"math-num\">" \o num
    \o "</span><span class=\"math-den\">" \o den \o "</span></span>"

FractionCommands == {"\\frac", "\\dfrac"}

Atoms == {"a", "b", "c", "1", "x+y"}

NestedInput(outer, inner, a, b, c) ==
  outer \o "{" \o inner \o "{" \o a \o "}{" \o b \o "}}{" \o c \o "}"

NestedInputs ==
  {Str(NestedInput(outer, inner, a, b, c)) :
     outer \in FractionCommands, inner \in FractionCommands,
     a \in Atoms, b \in Atoms, c \in Atoms}

SpecNested == Mount(NestedInputs) /\ [][Render]_vars

\* C2: \frac{\frac{a}{b}}{c} renders as one outer fraction unit whose
\* numerator element holds the complete inner fraction unit (numerator a,
\* denominator b) and whose denominator is c; no brace and no \frac is left.
C2_NestedNumerator ==
  Rendered =>
    \A outer \in FractionCommands, inner \in FractionCommands,
       a \in Atoms, b \in Atoms, c \in Atoms :
      content = Str(NestedInput(outer, inner, a, b, c)) =>
        /\ view.html = Paragraph(FractionUnit(FractionUnit(a, b), c))
        /\ ~includes(view.html, "{") /\ ~includes(view.html, "}")
        /\ ~includes(view.html, "frac{")

C2_Witness ==
  /\ content = Str("\\frac{\\frac{a}{b}}{c}")
  /\ view.html =
       "<p class=\"mb-4\"><span class=\"math-frac\"><span class=\"math-num\">"
         \o "<span class=\"math-frac\"><span class=\"math-num\">a</span>"
         \o "<span class=\"math-den\">b</span></span>"
         \o "</span><span class=\"math-den\">c</span></span></p>"

\* arguments no other stage rewrites
FractionArguments == {"1", "2", "a", "x+y", "n-1", "ab", "x y"}

\* brace-free arguments that later stages rewrite
MarkedArguments == {"x^2", "a_1", "\\alpha", "\\pi r"}

Spelling(cmd, a, b) == cmd \o "{" \o a \o "}{" \o b \o "}"

FractionInputs ==
  {Str(Spelling(cmd, a, b)) :
     cmd \in FractionCommands,
     a \in FractionArguments \cup MarkedArguments,
     b \in FractionArguments \cup MarkedArguments}

SpecFractions == Mount(FractionInputs) /\ [][Render]_vars

\* C8: for non-empty brace-free A and B, \frac{A}{B} and \dfrac{A}{B} render
\* to the same markup, one fraction unit; when no other stage rewrites A or
\* B its numerator element holds A and its denominator element holds B.
C8_BothSpellingsOneShape ==
  Rendered =>
    \A cmd \in FractionCommands,
       a \in FractionArguments \cup MarkedArguments,
       b \in FractionArguments \cup MarkedArguments :
      content = Str(Spelling(cmd, a, b)) =>
        /\ \A other \in FractionCommands :
             view = LaTeXRenderer(Str(Spelling(other, a, b)))
        /\ Count(view.html, "<span class=\"math-frac\">") = 1
        /\ (a \in FractionArguments /\ b \in FractionArguments) =>
             view.html = Paragraph(FractionUnit(a, b))

C8_Witness ==
  /\ content = Str("\\dfrac{1}{2}")
  /\ view.html = "<p class=\"mb-4\"><span class=\"math-frac\"><span class=\"math-num\">1"
                   \o "</span><span class=\"math-den\">2</span></span></p>"

----------------------------------------------------------------------------
(* Matrix environments *)

MaxRows == 2
MaxCols == 2

MatrixKinds == {"pmatrix", "bmatrix", "matrix", "vmatrix", "Vmatrix"}

\* the class attribute that tells the five kinds apart
MatrixClass(kind) ==
  CASE kind = "pmatrix" -> "math-matrix math-pmatrix"
    [] kind = "bmatrix" -> "math-matrix math-bmatrix"
    [] kind = "matrix"  -> "math-matrix "
    [] kind = "vmatrix" -> "math-matrix math-vmatrix"
    [] kind = "Vmatrix" -> "math-matrix math-Vmatrix"

\* already trimmed cell texts; a matrix is filled from them in row-major
\* order, starting at an offset
CellTexts == <<"1", "2", "-3", "ab", "x y", "">>

CellText(off, n) == CellTexts[((off + n) % Len(CellTexts)) + 1]

\* white space put around every cell
Pads == {"", " ", "\n"}

RECURSIVE Concat(_, _, _)
Concat(f, lo, hi) == IF lo > hi THEN "" ELSE f[lo] \o Concat(f, lo + 1, hi)

MatrixBody(R, C, off, pad) ==
  LET cell(r, c) == pad \o CellText(off, (r - 1) * C + (c - 1)) \o pad
      row(r) == Concat([c \in 1..C |-> IF c = 1 THEN cell(r, c)
                                       ELSE "&" \o cell(r, c)], 1, C)
  IN Concat([r \in 1..R |-> IF r = 1 THEN row(r) ELSE "\\\\" \o row(r)], 1, R)

MatrixInput(kind, R, C, off, pad) ==
  "\\begin{" \o kind \o "}" \o MatrixBody(R, C, off, pad) \o "\\end{" \o kind \o "}"

MatrixInputs ==
  {Str(MatrixInput(kind, R, C, off, pad)) :
     kind \in MatrixKinds, R \in 1..MaxRows, C \in 1..MaxCols,
     off \in 0..(Len(CellTexts) - 1), pad \in Pads}

SpecMatrix == Mount(MatrixInputs) /\ [][Render]_vars

ExpectedTable(kind, R, C, off) ==
  LET row(r) == "<tr>" \o Concat([c \in 1..C |->
                    "<td>" \o CellText(off, (r - 1) * C + (c - 1)) \o "</td>"], 1, C)
                  \o "</tr>"
  IN "<table class=\"" \o MatrixClass(kind) \o "\"><tbody>"
       \o Concat([r \in 1..R |-> row(r)], 1, R) \o "</tbody></table>"

\* C3: for each of the five matrix environments and a body of R rows of C
\* cells, the output holds one table whose class tells the kind, with exactly
\* R row elements of exactly C cell elements each, the cell texts being the
\* trimmed input cells in row-major order.
C3_RowsAndCells ==
  Rendered =>
    \A kind \in MatrixKinds, R \in 1..MaxRows, C \in 1..MaxCols,
       off \in 0..(Len(CellTexts) - 1), pad \in Pads :
      content = Str(MatrixInput(kind, R, C, off, pad)) =>
        /\ view.html = ExpectedTable(kind, R, C, off)
        /\ Count(view.html, "<table") = 1
        /\ Count(view.html, "<tr>") = R
        /\ Count(view.html, "<td>") = R * C
        /\ \A other \in MatrixKinds \ {kind} : MatrixClass(other) # MatrixClass(kind)

C3_Witness ==
  /\ content = Str("\\begin{pmatrix} 1 & 2 \\\\ -3 & ab \\end{pmatrix}")
  /\ view.html = "<table class=\"math-matrix math-pmatrix\"><tbody>"
                   \o "<tr><td>1</td><td>2</td></tr><tr><td>-3</td><td>ab</td></tr>"
                   \o "</tbody></table>"

----------------------------------------------------------------------------
(* Single-argument commands *)

SingleArgumentCommands ==
  {"overline", "underline", "hat", "tilde", "vec", "dot", "ddot", "sqrt"}

\* the structural wrapper of a single-argument command around its argument
Wrapper(cmd, x) ==
  IF cmd = "sqrt" THEN "U+221A(" \o x \o ")"
  ELSE "<span class=\"math-" \o cmd \o "\">" \o x \o "</span>"

\* arguments without a brace
FlatArguments == {"x", "ab", "x+y", "a b", "n-1"}

\* arguments whose braces are balanced
NestedArguments == {"a{b}c", "{x}", "x{y}", "{a}{b}"}

AccentInputs ==
  {Str("\\" \o cmd \o "{" \o x \o "}") :
     cmd \in SingleArgumentCommands, x \in FlatArguments \cup NestedArguments}

SpecAccents == Mount(AccentInputs) /\ [][Render]_vars

\* C4: for each single-argument command and every argument X without an
\* unbalanced brace, balanced nested groups included, \cmd{X} renders as
\* the command's wrapper holding exactly X, nothing of X left outside it.
C4_WrapperHoldsArgument ==
  Rendered =>
    \A cmd \in SingleArgumentCommands, x \in FlatArguments \cup NestedArguments :
      content = Str("\\" \o cmd \o "{" \o x \o "}") =>
        view.html = Paragraph(Wrapper(cmd, x))

\* what the patterns do deliver: an argument without a brace is wrapped whole
C4_FlatArgumentWrapped ==
  Rendered =>
    \A cmd \in SingleArgumentCommands, x \in FlatArguments :
      content = Str("\\" \o cmd \o "{" \o x \o "}") =>
        view.html = Paragraph(Wrapper(cmd, x))

\* ... and an argument with a nested group is cut at its first closing brace
C4_NestedArgumentCut ==
  /\ content = Str("\\hat{a{b}c}")
  /\ view.html = "<p class=\"mb-4\"><span class=\"math-hat\">a{b</span>c}</p>"

----------------------------------------------------------------------------
(* Display math before inline math *)

DisplayBodies == {"x", "a+b", "E = mc", "x y", "1", "n-1", "ab"}

Before == {"", "Area: ", "so "}
After  == {"", " holds", "."}

DisplayInput(pre, b, post) == pre \o "$$" \o b \o "$$" \o post

DisplayInputs ==
  {Str(DisplayInput(pre, b, post)) : pre \in Before, b \in DisplayBodies, post \in After}

\* both components of the repository are mounted on the same props
SpecDisplay == Mount(DisplayInputs) /\ [][Next]_vars

DisplayBlock(b) == "<div class=\"math-display\">" \o b \o "</div>"

OneDisplayBlock(pre, b, post) ==
  /\ Count(view.html, "<div class=\"math-display\">") = 1
  /\ includes(view.html, pre \o DisplayBlock(b) \o post)
  /\ ~includes(view.html, "math-inline")
  /\ ~includes(view.html, "$")

\* C5: an input with a doubled-dollar span $$B$$ renders with exactly one
\* display block around B and no inline wrapper around any part of the span;
\* the doubled-dollar form is resolved before the single-dollar rule.
C5_DisplayBeforeInline ==
  view.kind = "html" =>
    \A pre \in Before, b \in DisplayBodies, post \in After :
      content = Str(DisplayInput(pre, b, post)) => OneDisplayBlock(pre, b, post)

\* the component of the rule tables resolves the display form first
C5_RuleTablesDisplayFirst ==
  (view.kind = "html" /\ view.by = "LaTeXRenderer") =>
    \A pre \in Before, b \in DisplayBodies, post \in After :
      content = Str(DisplayInput(pre, b, post)) => OneDisplayBlock(pre, b, post)

\* the basic component lets the single-dollar rule take the inner dollars
C5_BasicInlineFirst ==
  /\ content = Str("$$x$$")
  /\ view.by = "LaTeXRendererBasic"
  /\ view.html = "$<span class=\"math-inline\">x</span>$"

----------------------------------------------------------------------------
(* Blank content *)

MaxBlank == 3

BlankCharacters == {" ", "\t", "\n"}

RECURSIVE Blanks(_)
Blanks(n) ==
  IF n = 0 THEN {""}
  ELSE {""} \cup {c \o s : c \in BlankCharacters, s \in Blanks(n - 1)}

BlankInputs == {Null, Undefined} \cup {Str(s) : s \in Blanks(MaxBlank)}

\* both components of the repository are mounted on the same props
SpecBlank == Mount(BlankInputs) /\ [][Next]_vars

\* C6: null, undefined, the empty string and white space only produce the
\* 'No content to render' placeholder and never raise; null and undefined
\* are treated like the empty string and no markup is emitted.
C6_BlankGivesPlaceholder ==
  (Rendered /\ content \in BlankInputs) => view.kind = "placeholder"

\* the component of the rule tables does so
C6_RuleTablesPlaceholder ==
  (Rendered /\ view.by = "LaTeXRenderer" /\ content \in BlankInputs) =>
    view.kind = "placeholder"

\* the basic component raises on a null prop ...
C6_BasicRaisesOnNull ==
  content = Null /\ view.by = "LaTeXRendererBasic" /\ view.kind = "error"

\* ... and emits empty markup for the empty string
C6_BasicEmptyMarkup ==
  content = Str("") /\ view.by = "LaTeXRendererBasic" /\ view.kind = "html" /\ view.html = ""

----------------------------------------------------------------------------
(* Inline math and its exponent *)

Prefixes  == {"Energy: ", "", "so "}
LeftSides == {"E", "F", "y"}
Bases     == {"mc", "x", "ab"}
Exponents == {"2", "3", "10", "n"}

InlineInput(pre, lhs, base, e) == pre \o "$" \o lhs \o " = " \o base \o "^" \o e \o "$"

InlineInputs ==
  {Str(InlineInput(pre, lhs, base, e)) :
     pre \in Prefixes, lhs \in LeftSides, base \in Bases, e \in Exponents}

SpecInline == Mount(InlineInputs) /\ [][Render]_vars

InlineWrapper(body) == "<span class=\"math-inline\">" \o body \o "</span>"

\* a caret before digits becomes a superscript element, any other caret stays
Raised(e) == IF \A n \in 1..Len(e) : At(e, n) \in Digits
             THEN "<sup>" \o e \o "</sup>" ELSE "^" \o e

\* C7 as stated: 'Energy: $E = mc^2$' renders with an inline wrapper whose
\* content is exactly the text 'E = mc^2', no later stage changing it, and
\* 'Energy: ' outside the wrapper.
C7_InlineContentUnchanged ==
  (Rendered /\ content = Str("Energy: $E = mc^2$")) =>
    view.html = Paragraph("Energy: " \o InlineWrapper("E = mc^2"))

\* C7: 'Energy: $E = mc^2$' renders with 'Energy: ' outside one inline
\* wrapper whose content is 'E = mc' followed by a superscript element
\* holding the 2: the script stage rewrites a caret before digits inside the
\* wrapper, and leaves the rest of the content as it was.
C7_InlineContentWithSuperscript ==
  Rendered =>
    \A pre \in Prefixes, lhs \in LeftSides, base \in Bases, e \in Exponents :
      content = Str(InlineInput(pre, lhs, base, e)) =>
        /\ view.html = Paragraph(pre \o InlineWrapper(lhs \o " = " \o base \o Raised(e)))
        /\ Count(view.html, "<span class=\"math-inline\">") = 1

C7_Witness ==
  /\ content = Str("Energy: $E = mc^2$")
  /\ view.html = "<p class=\"mb-4\">Energy: <span class=\"math-inline\">"
                   \o "E = mc<sup>2</sup></span></p>"

----------------------------------------------------------------------------
(* Headings *)

MaxWords == 2

Words == {"Title", "Intro", "Part", "Two"}

RECURSIVE Titles(_)
Titles(n) ==
  IF n = 1 THEN Words
  ELSE Titles(n - 1) \cup {w \o " " \o t : w \in Words, t \in Titles(n - 1)}

Levels == {1, 2, 3}

Marks(k) == CASE k = 1 -> "#" [] k = 2 -> "##" [] k = 3 -> "###"

HeadingInputs == {Str(Marks(k) \o " " \o t) : k \in Levels, t \in Titles(MaxWords)}

SpecHeading == Mount(HeadingInputs) /\ [][Render]_vars

HeadingElement(k, t) ==
  CASE k = 1 -> "<h1 class=\"text-2xl font-bold text-gray-900 mt-10 mb-5\">" \o t \o "</h1>"
    [] k = 2 -> "<h2 class=\"text-xl font-semibold text-gray-900 mt-8 mb-4\">" \o t \o "</h2>"
    [] k = 3 -> "<h3 class=\"text-lg font-semibold text-gray-900 mt-6 mb-3\">" \o t \o "</h3>"

\* C9: a single line of k hash marks (k = 1, 2, 3), a space and plain text T
\* renders with exactly one level-k heading element whose text is T, after
\* it a paragraph opened again for what follows; T stands in no paragraph
\* and in no heading of another level.
C9_HeadingThenParagraph ==
  Rendered =>
    \A k \in Levels, t \in Titles(MaxWords) :
      content = Str(Marks(k) \o " " \o t) =>
        /\ view.html = Paragraph("") \o HeadingElement(k, t) \o Paragraph("")
        /\ Count(view.html, "<h") = 1
        /\ Count(view.html, t) = 1

C9_Witness ==
  /\ content = Str("## Title")
  /\ view.html = "<p class=\"mb-4\"></p>"
                   \o "<h2 class=\"text-xl font-semibold text-gray-900 mt-8 mb-4\">Title</h2>"
                   \o "<p class=\"mb-4\"></p>"

----------------------------------------------------------------------------
(* Malformed input *)

MaxTokens == 2

\* pieces that open a construct and never close one
Openers == {"{", "\\frac{a", "\\foo", "^", "_", "\\begin{pmatrix}", "\\hat{", "\\[", "x"}

\* pieces that may close one
Closers == {"}", "$", "\\end{bmatrix}"}

RECURSIVE Malformed(_)
Malformed(n) ==
  IF n = 1 THEN Openers \cup Closers
  ELSE Malformed(n - 1)
         \cup {t \o s : t \in Openers \cup Closers, s \in Malformed(n - 1)}

MalformedInputs == {Str(s) : s \in Malformed(MaxTokens)}

SpecMalformed == Mount(MalformedInputs) /\ [][Render]_vars

OpenersOnly(s) == \A c \in Closers : ~includes(s, c)

\* C10: on every input string, with unbalanced braces, unterminated
\* delimiters, unknown commands, stray carets or underscores or unclosed
\* environments, the renderer returns a markup string and does not raise;
\* a construct that is never closed is passed through as literal text.
C10_NeverRaises ==
  Rendered =>
    /\ view.kind = "html"
    /\ startsWith(view.html, "<p class=\"mb-4\">")
    /\ endsWith(view.html, "</p>")
    /\ OpenersOnly(content.str) => view.html = Paragraph(content.str)

C10_Witness ==
  /\ content = Str("\\frac{a{")
  /\ view.html = "<p class=\"mb-4\">\\frac{a{</p>"

----------------------------------------------------------------------------
(* Markup-significant characters of the input *)

\* input text that holds <, > or &
Injected == {"<b>", "<script>", "<img src=x>", "<u>", "a < b", "x > y",
             "a & b", "&lt;", "<i>t</i>"}

Leading  == {"", "a ", "$x$ "}
Trailing == {"", " z", "."}

InjectedInputs ==
  {Str(pre \o t \o post) : pre \in Leading, t \in Injected, post \in Trailing}

SpecInjected == Mount(InjectedInputs) /\ [][Render]_vars

\* C11: the output is escaped markup: the characters <, > and & of the input
\* text never reach the output unescaped, so input text cannot put an
\* element of its own into the output.
C11_InputTextEscaped ==
  Rendered =>
    \A pre \in Leading, t \in Injected, post \in Trailing :
      content = Str(pre \o t \o post) => ~includes(view.html, t)

\* what the stages do: no stage escapes, the input text stands in the output
\* as it was written
C11_InputTextVerbatim ==
  Rendered =>
    \A pre \in Leading, t \in Injected, post \in Trailing :
      content = Str(pre \o t \o post) => includes(view.html, t \o post)

C11_ElementInjected ==
  /\ content = Str("<script>")
  /\ view.html = "<p class=\"mb-4\"><script></p>"

----------------------------------------------------------------------------
(* Calls of renderLaTeX side by side *)

\* variant: the symbol table applied first
StagesSymbolsFirst(t) ==
  <<SymbolPasses(t.symbols), MathDelimiters, Accents, Matrices, Fractions,
    BlackboardPasses(t.blackboard), Roots, Functions, Scripts, TextFormatting,
    Paragraphs, Headings, Lists>>

\* the statements of renderLaTeX by stage, the two table loops reading the
\* module-level tables as they are at that moment
Stages(t) ==
  <<MathDelimiters, Accents, Matrices, Fractions, BlackboardPasses(t.blackboard),
    Roots, SymbolPasses(t.symbols), Functions, Scripts, TextFormatting,
    Paragraphs, Headings, Lists>>

Returned == Len(Stages(Tables)) + 1

\* let result = text
Call(text) == [text |-> text, result |-> text, pc |-> 1]

\* variant: a table loop that takes its entries off the shared table
afterReplaceShifting(t) == [t EXCEPT !.symbols = Tail(@)]

\* String.prototype.replace with a global pattern sets the pattern's
\* lastIndex to 0 before it matches and leaves it 0; nothing writes a table
afterReplace(t) == [t EXCEPT !.lastIndex = 0]

CallIds == {1, 2}

\* one stage of one call: result = result.replace(...), for each statement
\* of the stage
Step(c) ==
  /\ calls[c].pc < Returned
  /\ LET passes == Stages(tables)[calls[c].pc] IN
     calls' = [calls EXCEPT ![c].result = RunPasses(@, passes, 1, Len(passes)),
                            ![c].pc = @ + 1]
  /\ tables' = afterReplace(tables)
  /\ UNCHANGED <<content, view, requests, panel>>

CallTexts == {"\\alpha x", "\\mathbb{R}^2", "$a_1$ \\to b"}

Invoke(texts) ==
  /\ content = Undefined /\ view = NotRendered
  /\ calls \in [CallIds -> {Call(t) : t \in texts}]
  /\ tables = Tables
  /\ requests = NoRequests /\ panel = NoPanel

SpecCalls == Invoke(CallTexts) /\ [][\E c \in CallIds : Step(c)]_vars

\* C12: calls of the renderer interleaved in any order do not affect one
\* another: the symbol table and the blackboard-bold table are at every
\* moment what they were, no state passes from one call to another, and what
\* a call returns is the rendering of its own input alone.
C12_CallsIndependent ==
  /\ tables = Tables
  /\ \A c \in DOMAIN calls :
       calls[c].pc = Returned => calls[c].result = renderLaTeX(calls[c].text)

C12_Witness ==
  /\ calls # NoCalls
  /\ calls[1].text = "\\alpha x" /\ calls[1].pc = Returned /\ calls[1].result = "U+03B1 x"
  /\ calls[2].text = "$a_1$ \\to b" /\ calls[2].pc > 1 /\ calls[2].pc < Returned

----------------------------------------------------------------------------
(* Rendering rendered markup again *)

RepeatedArguments == {"a", "x", "ab", "n", "x+y"}

Twofold(cmd, x) == "\\" \o cmd \o "{\\" \o cmd \o "{" \o x \o "}}"

TwofoldInputs ==
  {Str(Twofold(cmd, x)) : cmd \in SingleArgumentCommands, x \in RepeatedArguments}

SpecRerender == Mount(TwofoldInputs) /\ [][Render \/ Rerender]_vars

WrapperOpen(cmd) ==
  IF cmd = "sqrt" THEN "U+221A(" ELSE "<span class=\"math-" \o cmd \o "\">"

WrapperClose(cmd) == IF cmd = "sqrt" THEN ")" ELSE "</span>"

\* C13: the renderer is not idempotent: there are inputs (here a command
\* applied to itself) whose markup, given to the renderer a second time,
\* comes out different from the first rendering.
C13_SecondRenderingDiffers ==
  \A cmd \in SingleArgumentCommands, x \in RepeatedArguments :
    content = Str(Twofold(cmd, x)) =>
      /\ view.by = "LaTeXRenderer" =>
           view.html = Paragraph(WrapperOpen(cmd) \o "\\" \o cmd \o "{" \o x
                                   \o WrapperClose(cmd) \o "}")
      /\ view.by = "Rerender" =>
           /\ view.html = Paragraph(WrapperOpen(cmd) \o WrapperOpen(cmd) \o x
                                      \o WrapperClose(cmd) \o WrapperClose(cmd))
           /\ view.html # LaTeXRenderer(content).html

C13_Witness ==
  /\ content = Str("\\hat{\\hat{a}}")
  /\ view.by = "Rerender"
  /\ view.html = "<p class=\"mb-4\"><span class=\"math-hat\"><span class=\"math-hat\">a"
                   \o "</span></span></p>"

----------------------------------------------------------------------------
(* Arguments nested two levels deep *)

DeepAtoms == {"a", "b", "1"}

DeepFraction(a, b, c, d) ==
  "\\frac{\\frac{\\frac{" \o a \o "}{" \o b \o "}}{" \o c \o "}}{" \o d \o "}"

RootBases     == {"x", "y", "ab", "n"}
RootExponents == {"2", "n", "k+1", "10"}

RootOfPower(x, e) == "\\sqrt{" \o x \o "^{" \o e \o "}}"

DeepInputs ==
  {Str(DeepFraction(a, b, c, d)) :
     a \in DeepAtoms, b \in DeepAtoms, c \in DeepAtoms, d \in DeepAtoms}
    \cup {Str(RootOfPower(x, e)) : x \in RootBases, e \in RootExponents}

SpecDeep == Mount(DeepInputs) /\ [][Render]_vars

\* C14: the arguments of the fraction and root commands are matched
\* brace-balanced at every depth: a fraction in a fraction in a fraction, or
\* \sqrt{x^{2}}, is captured whole, no closing brace and no piece of an
\* argument left outside the wrapper.
C14_BalancedAtEveryDepth ==
  Rendered =>
    /\ \A a \in DeepAtoms, b \in DeepAtoms, c \in DeepAtoms, d \in DeepAtoms :
         content = Str(DeepFraction(a, b, c, d)) =>
           view.html = Paragraph(FractionUnit(FractionUnit(FractionUnit(a, b), c), d))
    /\ \A x \in RootBases, e \in RootExponents :
         content = Str(RootOfPower(x, e)) =>
           view.html = Paragraph("U+221A(" \o x \o "<sup>" \o e \o "</sup>)")

\* what the patterns do: the root argument ends at the first closing brace,
\* which puts the root's closing parenthesis into the exponent
C14_RootCutAtFirstBrace ==
  Rendered =>
    \A x \in RootBases, e \in RootExponents :
      content = Str(RootOfPower(x, e)) =>
        view.html = Paragraph("U+221A(" \o x \o "<sup>" \o e \o ")</sup>")

\* ... and the fraction pattern, which allows one level of groups, does not
\* match the outermost of three fractions
C14_OuterFractionUnmatched ==
  /\ content = Str("\\frac{\\frac{\\frac{a}{b}}{1}}{1}")
  /\ view.kind = "html"
  /\ includes(view.html, "\\frac{")

----------------------------------------------------------------------------
(* Commands that begin with a table entry *)

\* letters that continue a command name
NameTails == {"bet", "s", "x"}

\* the table commands and function names that are extended
ExtendedCommands ==
  {"\\alpha", "\\in", "\\to", "\\pi", "\\sum", "\\int", "\\cap", "\\mu",
   "\\lim", "\\sin", "\\log", "\\det", "\\ln", "\\exp"}

TextsAround == {"", "a ", "x = "}

ExtendedInputs ==
  {Str(pre \o cmd \o tail) :
     pre \in TextsAround, cmd \in ExtendedCommands, tail \in NameTails}
    \cup {Str("\\alphabet"), Str("\\input"), Str("\\limits")}

SpecExtended == Mount(ExtendedInputs) /\ [][Render]_vars

\* C15: a symbol-table or function-name command is substituted only when a
\* non-identifier character or the end of the input follows its name: a
\* command whose name only begins with a table entry (\alphabet, \input,
\* \limits) is not replaced in part and passes through as literal text.
C15_LongerNamePassesThrough ==
  Rendered =>
    /\ \A pre \in TextsAround, cmd \in ExtendedCommands, tail \in NameTails :
         content = Str(pre \o cmd \o tail) =>
           view.html = Paragraph(pre \o cmd \o tail)
    /\ \A s \in {"\\alphabet", "\\input", "\\limits"} :
         content = Str(s) => view.html = Paragraph(s)

\* what the patterns do: the table entry is replaced wherever its text
\* stands, and the rest of the name follows the glyph
C15_HeadOfNameReplaced ==
  /\ content = Str("\\alphabet")
  /\ view.html = "<p class=\"mb-4\">U+03B1bet</p>"

C15_FunctionHeadReplaced ==
  /\ content = Str("\\limits")
  /\ view.html = "<p class=\"mb-4\"><span class=\"math-func\">lim</span>its</p>"

----------------------------------------------------------------------------
(* Markers at the start of a line *)

LineMarkers == {"# ", "## ", "### ", "- ", "1. "}

\* what stands before the marked line: nothing, a line, a line and a blank
\* line
FirstLine      == ""
AfterNewline   == "a\n"
AfterBlankLine == "a\n\n"

LinePositions == {FirstLine, AfterNewline, AfterBlankLine}

LineTexts == {"Title", "Intro", "Part", "Two", "Part Two", "item", "b c", "x"}

MarkedInputs ==
  {Str(lead \o m \o t) : lead \in LinePositions, m \in LineMarkers, t \in LineTexts}

SpecMarked == Mount(MarkedInputs) /\ [][Render]_vars

\* the element a marked line becomes
MarkedElement(m, t) ==
  CASE m = "# "   -> HeadingElement(1, t)
    [] m = "## "  -> HeadingElement(2, t)
    [] m = "### " -> HeadingElement(3, t)
    [] m = "- "   -> "<li class=\"ml-6 mb-2\">U+2022 " \o t \o "</li>"
    [] m = "1. "  -> "<li class=\"ml-6 mb-2 list-decimal\">" \o t \o "</li>"

\* C16: a heading marker or a list-item marker at the start of any line of
\* the input becomes the heading or list-item element, be the line the first
\* one, after a single newline, or after a blank line.
C16_MarkerAtAnyLineStart ==
  Rendered =>
    \A lead \in LinePositions, m \in LineMarkers, t \in LineTexts :
      content = Str(lead \o m \o t) =>
        /\ includes(view.html, MarkedElement(m, t))
        /\ ~includes(view.html, m \o t)

\* what the stages do: on the first line and after a single newline the
\* marker is converted ...
C16_ConvertedAtLineStart ==
  Rendered =>
    \A lead \in {FirstLine, AfterNewline}, m \in LineMarkers, t \in LineTexts :
      content = Str(lead \o m \o t) =>
        /\ includes(view.html, MarkedElement(m, t))
        /\ ~includes(view.html, m \o t)

\* ... and after a blank line it stays as text: the paragraph stage has
\* already put markup in place of the newlines before the marker
C16_LiteralAfterBlankLine ==
  Rendered =>
    \A m \in LineMarkers, t \in LineTexts :
      content = Str(AfterBlankLine \o m \o t) =>
        view.html = Paragraph("a") \o Paragraph(m \o t)

----------------------------------------------------------------------------
(* Matrix environments with an empty body *)

EmptyMatrixInputs ==
  {Str("\\begin{" \o kind \o "}" \o body \o "\\end{" \o kind \o "}") :
     kind \in MatrixKinds, body \in Blanks(MaxBlank)}

SpecEmptyMatrix == Mount(EmptyMatrixInputs) /\ [][Render]_vars

\* C17: a matrix environment whose body is empty or white space only renders
\* as a table with no row element and no cell element, without error.
C17_EmptyBodyNoRows ==
  (Rendered /\ content \in EmptyMatrixInputs) =>
    /\ view.kind = "html"
    /\ Count(view.html, "<table") = 1
    /\ Count(view.html, "<tr>") = 0
    /\ Count(view.html, "<td>") = 0

\* what renderMatrix does: the split of the empty string has one element, so
\* the table has one row of one empty cell
C17_EmptyBodyOneEmptyCell ==
  Rendered =>
    \A kind \in MatrixKinds, body \in Blanks(MaxBlank) :
      content = Str("\\begin{" \o kind \o "}" \o body \o "\\end{" \o kind \o "}") =>
        view.html = "<table class=\"" \o MatrixClass(kind) \o "\"><tbody>"
                      \o "<tr><td></td></tr></tbody></table>"

----------------------------------------------------------------------------
(* Escaped braces *)

\* what takes a brace group as its argument in a later stage
GroupTakers == {"^", "_", "\\textbf", "\\textit"}

\* the two spellings of the escaped brace pair
EscapedPairs == {<<"\\{", "\\}">>, <<"\\lbrace", "\\rbrace">>}

EscapedTexts == {"2", "i", "a", "n+1", "ab"}

EscapedLeads == {"", "x", "y "}

EscapedInput(lead, op, pair, t) == lead \o op \o pair[1] \o t \o pair[2]

EscapedInputs ==
  {Str(EscapedInput(lead, op, pair, t)) :
     lead \in EscapedLeads, op \in GroupTakers, pair \in EscapedPairs, t \in EscapedTexts}

SpecEscaped == Mount(EscapedInputs) /\ [][Render]_vars

\* C18: text a stage puts in is not read as LaTeX syntax by a later stage:
\* the literal braces made from \{ and \} stay literal characters of the
\* output and are not taken as the argument group of a superscript, a
\* subscript, \textbf or \textit.
C18_EscapedBracesStayLiteral ==
  Rendered =>
    \A lead \in EscapedLeads, op \in GroupTakers, pair \in EscapedPairs,
       t \in EscapedTexts :
      content = Str(EscapedInput(lead, op, pair, t)) =>
        view.html = Paragraph(lead \o op \o "{" \o t \o "}")

\* the element a later stage makes of the group
GroupElement(op, t) ==
  CASE op = "^"        -> "<sup>" \o t \o "</sup>"
    [] op = "_"        -> "<sub>" \o t \o "</sub>"
    [] op = "\\textbf" -> "<strong>" \o t \o "</strong>"
    [] op = "\\textit" -> "<em>" \o t \o "</em>"

\* what the stages do: the symbol stage makes the braces, and the script and
\* text stages after it take them as an argument group
C18_EscapedBracesTakenAsGroup ==
  Rendered =>
    \A lead \in EscapedLeads, op \in GroupTakers, pair \in EscapedPairs,
       t \in EscapedTexts :
      content = Str(EscapedInput(lead, op, pair, t)) =>
        view.html = Paragraph(lead \o GroupElement(op, t))

----------------------------------------------------------------------------
(* Fractions with a malformed argument list *)

BrokenAtoms == {"a", "1", "x+y"}

\* one group only; no closing brace; text between the two groups
BrokenPlain(cmd, a, b) ==
  {cmd \o "{" \o a \o "}",
   cmd \o "{" \o a \o "} " \o b,
   cmd \o "{" \o a \o "}{" \o b,
   cmd \o "{" \o a \o "}x{" \o b \o "}",
   cmd \o "{" \o a \o "} {" \o b \o "}"}

\* no closing brace, and a brace group in the text that follows
BrokenBeforeGroup(cmd, a, b) ==
  {cmd \o "{" \o a \o "}{" \o b \o " and {c}",
   cmd \o "{" \o a \o " and {c}{" \o b \o "}"}

BrokenInputs ==
  {Str(s) : s \in UNION {BrokenPlain(cmd, a, b) \cup BrokenBeforeGroup(cmd, a, b) :
                           cmd \in FractionCommands, a \in BrokenAtoms, b \in BrokenAtoms}}

SpecBroken == Mount(BrokenInputs) /\ [][Render]_vars

\* C19: a fraction command whose argument list is unmatched or malformed
\* (one group only, a closing brace missing, text between the groups) is
\* left as literal text: no fraction unit is made of it, and no later text
\* or later closing brace is drawn into one of its arguments.
C19_MalformedFractionLiteral ==
  (Rendered /\ content \in BrokenInputs) =>
    /\ view.html = Paragraph(content.str)
    /\ ~includes(view.html, "math-frac")

\* what the patterns do: with one group, with the input ending in the open
\* group, or with text between the groups, the command stays text ...
C19_PlainMalformedLiteral ==
  Rendered =>
    \A cmd \in FractionCommands, a \in BrokenAtoms, b \in BrokenAtoms :
      content.str \in BrokenPlain(cmd, a, b) => view.html = Paragraph(content.str)

\* ... and an open group followed by a brace group is closed by that
\* group's brace, the text in between drawn into the argument
C19_LaterBraceAbsorbed ==
  /\ content = Str("\\frac{a}{1 and {c}")
  /\ view.html = "<p class=\"mb-4\"><span class=\"math-frac\"><span class=\"math-num\">a"
                   \o "</span><span class=\"math-den\">1 and {c</span></span></p>"

----------------------------------------------------------------------------
(* Opening delimiters that are never closed *)

Openings == {"\\[", "\\(", "$$", "$"}

\* the closing delimiter of each opening
Closing(open) ==
  CASE open = "\\[" -> "\\]" [] open = "\\(" -> "\\)"
    [] open = "$$" -> "$$" [] open = "$" -> "$"

OpenLeads  == {"", "a "}
OpenBodies == {"x", " y", "a+b", "E = mc"}

\* what follows the body: nothing, text, or the closing of a bracket form
OpenTails == {"", " end", " \\]", " \\)"}

\* the tails that hold no closing of the opening
TailsFor(open) == {t \in OpenTails : ~includes(t, Closing(open))}

UnclosedInputs ==
  UNION {{Str(lead \o open \o body \o tail) :
            lead \in OpenLeads, body \in OpenBodies, tail \in TailsFor(open)} :
         open \in Openings}

SpecUnclosed == Mount(UnclosedInputs) /\ [][Render]_vars

----------------------------------------------------------------------------
(* Superscripts and subscripts *)

ScriptMarks == {"^", "_"}

ScriptBases == {"x", "y", "ab", "n"}

\* what is written after the mark, the digit or group interior in it, and
\* what follows that: a digit or a group without braces inside ...
FlatScripts ==
  {<<"2", "2", "">>, <<"2y", "2", "y">>, <<"7 z", "7", " z">>,
   <<"{n}", "n", "">>, <<"{n+1}", "n+1", "">>, <<"{2}y", "2", "y">>}

\* ... a digit with a digit after it, a group with a group inside
RunningScripts ==
  {<<"23", "2", "3">>, <<"10", "1", "0">>, <<"{a{b}c}", "a{b}c", "">>}

ScriptInputs ==
  {Str(base \o mark \o s[1]) :
     base \in ScriptBases, mark \in ScriptMarks, s \in FlatScripts \cup RunningScripts}

SpecScripts == Mount(ScriptInputs) /\ [][Render]_vars

ScriptElement(mark, t) ==
  IF mark = "^" THEN "<sup>" \o t \o "</sup>" ELSE "<sub>" \o t \o "</sub>"

\* C21: a caret (underscore) before a single digit or a brace group becomes
\* one superscript (subscript) element holding exactly that digit or the
\* interior of the group, what comes after it staying outside the element.
C21_ScriptHoldsDigitOrGroup ==
  Rendered =>
    \A base \in ScriptBases, mark \in ScriptMarks,
       s \in FlatScripts \cup RunningScripts :
      content = Str(base \o mark \o s[1]) =>
        view.html = Paragraph(base \o ScriptElement(mark, s[2]) \o s[3])

\* what the patterns do: one digit before a non-digit, and a group without
\* braces inside, are converted so ...
C21_FlatScriptConverted ==
  Rendered =>
    \A base \in ScriptBases, mark \in ScriptMarks, s \in FlatScripts :
      content = Str(base \o mark \o s[1]) =>
        view.html = Paragraph(base \o ScriptElement(mark, s[2]) \o s[3])

\* ... a run of digits is taken whole ...
C21_DigitRunTakenWhole ==
  /\ content = Str("x^23")
  /\ view.html = "<p class=\"mb-4\">x<sup>23</sup></p>"

\* ... and a group ends at its first closing brace
C21_GroupCutAtFirstBrace ==
  /\ content = Str("x^{a{b}c}")
  /\ view.html = "<p class=\"mb-4\">x<sup>a{b</sup>c}</p>"

----------------------------------------------------------------------------
(* Roots with and without an index *)

Radicands   == {"x", "ab", "x+1", "2"}
RootIndices == {"3", "n", "12"}

\* a root as written, and the wrapper it is to become
PlainRoots == {<<"\\sqrt{" \o x \o "}", "U+221A(" \o x \o ")">> : x \in Radicands}

IndexedRoots ==
  {<<"\\sqrt[" \o n \o "]{" \o x \o "}",
     "<span class=\"math-root\"><sup>" \o n \o "</sup>U+221A(" \o x \o ")</span>">> :
     n \in RootIndices, x \in Radicands}

RootForms == PlainRoots \cup IndexedRoots

\* one root, or two roots with a plus sign between them
RootInputs ==
  {Str(f[1]) : f \in RootForms}
    \cup {Str(f[1] \o " + " \o g[1]) : f \in RootForms, g \in RootForms}

SpecRoots == Mount(RootInputs) /\ [][Render]_vars

\* C22: \sqrt{X} renders as the plain square-root wrapper around X, and
\* \sqrt[N]{X} as the radical wrapper around X with N as a superscript; the
\* one-argument rule, which runs first, takes no part of a two-argument form.
C22_PlainAndIndexedRoots ==
  Rendered =>
    /\ \A f \in RootForms : content = Str(f[1]) => view.html = Paragraph(f[2])
    /\ \A f \in RootForms, g \in RootForms :
         content = Str(f[1] \o " + " \o g[1]) =>
           view.html = Paragraph(f[2] \o " + " \o g[2])

C22_Witness ==
  /\ content = Str("\\sqrt{x} + \\sqrt[3]{x}")
  /\ view.html = "<p class=\"mb-4\">U+221A(x) + <span class=\"math-root\"><sup>3</sup>"
                   \o "U+221A(x)</span></p>"

----------------------------------------------------------------------------
(* The final markup as one wrapped unit *)

\* pieces of content: text, inline and display math, a matrix, a heading,
\* a list item, a forced line break, two paragraphs
Pieces == {"a", "$z$", "$$x$$", "\\[y\\]", "\\begin{matrix}1\\end{matrix}",
           "# T", "- i", "a\\\\b", "b\n\nc"}

PieceJoints == {" ", "\n"}

PieceInputs ==
  {Str(p) : p \in Pieces}
    \cup {Str(p \o j \o q) : p \in Pieces, j \in PieceJoints, q \in Pieces}

SpecPieces == Mount(PieceInputs) /\ [][Render]_vars

ParagraphOpenings(h) == {k \in 1..Len(h) : StartsAt(h, k, "<p class=")}
ParagraphClosings(h) == {k \in 1..Len(h) : StartsAt(h, k, "</p>")}

CountBefore(S, k) == Cardinality({j \in S : j < k})

\* the opening and closing paragraph tags of h take turns, an opening first
\* and a closing last
ParagraphsMatched(h) ==
  /\ Cardinality(ParagraphOpenings(h)) = Cardinality(ParagraphClosings(h))
  /\ \A o \in ParagraphOpenings(h) :
       CountBefore(ParagraphClosings(h), o) = CountBefore(ParagraphOpenings(h), o)
  /\ \A c \in ParagraphClosings(h) :
       CountBefore(ParagraphOpenings(h), c) = CountBefore(ParagraphClosings(h), c) + 1

BeginsWithBlock(h) ==
  \/ startsWith(h, "<p") \/ startsWith(h, "<h")
  \/ startsWith(h, "<div") \/ startsWith(h, "<table")

\* C23: the final markup is one well-formed wrapped unit: it begins with a
\* block-level opening tag, and every paragraph-opening tag has a later
\* paragraph-closing tag of its own and the other way round; only with a
\* forced line break in the markup is the closing tag not appended.
C23_OneWrappedUnit ==
  (Rendered /\ content \in PieceInputs) =>
    /\ BeginsWithBlock(view.html)
    /\ ~includes(view.html, "<br") => ParagraphsMatched(view.html)

\* what the wrapping does deliver: the markup begins with a block-level tag
C23_BeginsWithBlock ==
  (Rendered /\ content \in PieceInputs) => BeginsWithBlock(view.html)

\* ... and where it falls short: markup that begins with a display block is
\* given a closing paragraph tag and no opening one
C23_ClosingWithoutOpening ==
  /\ content = Str("$$x$$ a")
  /\ view.html = "<div class=\"math-display\">x</div> a</p>"

\* ... markup that ends with a display block is given an opening paragraph
\* tag and no closing one
C23_OpeningWithoutClosing ==
  /\ content = Str("a $$x$$")
  /\ view.html = "<p class=\"mb-4\">a <div class=\"math-display\">x</div>"

----------------------------------------------------------------------------
(* Structure before symbols *)

\* the stage of the symbol-table loop
SymbolStage == CHOOSE n \in 1..Len(Stages(Tables)) : Stages(Tables)[n] = Symbols

\* table commands inside math delimiters, a matrix, an accent, a fraction
\* and a root
StructuredTexts ==
  {"$\\alpha$ and \\[\\pi\\]",
   "\\begin{pmatrix}\\alpha & \\beta\\end{pmatrix}",
   "\\hat{\\theta} + \\vec{\\beta}",
   "\\frac{\\pi}{2}",
   "\\sqrt{\\alpha} + \\sqrt[3]{\\beta}"}

CommandsUsed == {"\\alpha", "\\beta", "\\pi", "\\theta"}

\* what opens a math delimiter or a structural form
StructuralOpenings ==
  {"$", "\\[", "\\begin{", "\\hat{", "\\vec{", "\\frac{", "\\sqrt{", "\\sqrt["}

SpecStages == Invoke(StructuredTexts) /\ [][\E c \in CallIds : Step(c)]_vars

\* C24: in every call the math delimiters and the matrix environments are
\* resolved before the first symbol-table substitution, and the symbol table
\* is applied only after accents, matrices, fractions and roots have
\* consumed their commands.
C24_StructureBeforeSymbols ==
  \A c \in DOMAIN calls :
    /\ calls[c].pc <= SymbolStage =>
         /\ \A cmd \in CommandsUsed : ~includes(calls[c].result, Glyph(cmd))
         /\ \E cmd \in CommandsUsed : includes(calls[c].result, cmd)
    /\ calls[c].pc >= SymbolStage =>
         \A open \in StructuralOpenings : ~includes(calls[c].result, open)
    /\ calls[c].pc > SymbolStage =>
         /\ \A cmd \in CommandsUsed : ~includes(calls[c].result, cmd)
         /\ \E cmd \in CommandsUsed : includes(calls[c].result, Glyph(cmd))

C24_Witness ==
  /\ calls # NoCalls
  /\ calls[1].text = "\\frac{\\pi}{2}"
  /\ calls[1].pc = SymbolStage
  /\ calls[1].result = "<span class=\"math-frac\"><span class=\"math-num\">\\pi</span>"
                         \o "<span class=\"math-den\">2</span></span>"

----------------------------------------------------------------------------
(* Math across a blank line *)

\* the opening and the closing delimiter of the four math forms
MathForms == {<<"$", "$">>, <<"$$", "$$">>, <<"\\[", "\\]">>, <<"\\(", "\\)">>}

BlankLines == {"\n\n", "\n \n"}

FirstParts  == {"a", "x +", "1"}
SecondParts == {"b", "y", "= 2"}
AcrossLeads == {"", "t "}

AcrossInput(lead, f, a, blank, b) == lead \o f[1] \o a \o blank \o b \o f[2]

AcrossInputs ==
  {Str(AcrossInput(lead, f, a, blank, b)) :
     lead \in AcrossLeads, f \in MathForms, a \in FirstParts,
     blank \in BlankLines, b \in SecondParts}

SpecAcross == Mount(AcrossInputs) /\ [][Render]_vars

MathOpenings(h) ==
  {k \in 1..Len(h) : StartsAt(h, k, "<span class=\"math-inline\">")
                       \/ StartsAt(h, k, "<div class=\"math-display\">")}

\* the closing tag of the math element that opens at k
MathClosing(h, k) ==
  IF StartsAt(h, k, "<span") THEN IndexOf(h, "</span>", k) ELSE IndexOf(h, "</div>", k)

\* every math element of h is closed before the paragraph around it ends
ClosedInItsParagraph(h) ==
  \A k \in MathOpenings(h) :
    /\ MathClosing(h, k) > 0
    /\ IndexOf(h, "</p>", k) = 0 \/ MathClosing(h, k) < IndexOf(h, "</p>", k)

\* C25: a math wrapper does not cross a paragraph boundary: delimiters with
\* a blank line between them are not paired, every math-inline and
\* math-display element opens and closes inside one paragraph of the output.
C25_MathInsideOneParagraph ==
  (Rendered /\ content \in AcrossInputs) => ClosedInItsParagraph(view.html)

\* what the stages do: the delimiter patterns match across newlines and run
\* before the paragraph stage, which then breaks the paragraph inside the
\* wrapper
C25_ParagraphBreakInsideWrapper ==
  Rendered =>
    \A lead \in AcrossLeads, a \in FirstParts, blank \in BlankLines, b \in SecondParts :
      content = Str(AcrossInput(lead, <<"$", "$">>, a, blank, b)) =>
        view.html = Paragraph(lead \o "<span class=\"math-inline\">" \o a \o "</p>"
                                \o ParagraphOpen \o b \o "</span>")

----------------------------------------------------------------------------
(* The backend (the Express handlers of the four operations) and the       *)
(* client API (callApi and its four wrappers).  A JavaScript value that    *)
(* may be of several types is a record with a type field (Str, Null,       *)
(* Undefined); an object is a record of such values, and reading a         *)
(* property it lacks gives Undefined.                                      *)

\* obj.f
Get(obj, f) == IF f \in DOMAIN obj THEN obj[f] ELSE Undefined

\* ToBoolean of a string, null or undefined
Truthy(v) == v.type = "string" /\ v.str # ""

\* a || b
Or(a, b) == IF Truthy(a) THEN a ELSE b

\* what client.models.generateContent settles to: a candidate with a text,
\* a response without candidates, or a rejection
Answer(t) == [kind |-> "text", text |-> t]
NoCandidates == [kind |-> "none", text |-> ""]
ModelError == [kind |-> "thrown", text |-> "quota exceeded"]

\* one call of the model; text is response.candidates?.[0]...text || ''
generateContent(answer) ==
  [thrown |-> answer.kind = "thrown",
   text |-> IF answer.kind = "text" THEN answer.text ELSE "",
   modelCalls |-> 1]

errorResponse(message) == [success |-> FALSE, error |-> Str(message)]

successResponse(data) == [success |-> TRUE, data |-> data]

\* res.status(code).json(value); res.json(value) is status 200
Json(value) == [json |-> TRUE, value |-> value]
Response(status, body) == [kind |-> "response", status |-> status, body |-> body]

\* an answer of the handler, and the number of model calls it made
Handled(g, status, envelope) ==
  [response |-> Response(status, Json(envelope)), modelCalls |-> g.modelCalls]

translate(answer) ==
  LET translatedContent == generateContent(answer) IN
  IF translatedContent.thrown
  THEN Handled(translatedContent, 500, errorResponse("Failed to translate content."))
  ELSE IF trim(translatedContent.text) = ""
  THEN Handled(translatedContent, 500,
         errorResponse("Translation returned empty. Try different content or language."))
  ELSE Handled(translatedContent, 200,
         successResponse([translatedContent |-> Str(translatedContent.text)]))

summarize(answer) ==
  LET summary == generateContent(answer) IN
  IF summary.thrown
  THEN Handled(summary, 500, errorResponse("Failed to generate summary."))
  ELSE Handled(summary, 200, successResponse([summary |-> Str(summary.text)]))

\* the markdown code fence, three grave accents, by its code points
Fence == "U+0060U+0060U+0060"

\* the removal of a markdown code fence around the quiz text
cleanText(quizText) ==
  LET t == trim(quizText)
      fence == IF startsWith(t, Fence \o "json") THEN Fence \o "json"
               ELSE IF startsWith(t, Fence) THEN Fence ELSE ""
      opened == From(t, Skip(t, WhiteSpace, Len(fence) + 1))
  IN IF fence = "" THEN t
     ELSE IF endsWith(opened, Fence)
     THEN SubSeq(opened, 1, SkipBack(opened, WhiteSpace, Len(opened) - Len(Fence)))
     ELSE opened

Question(q) == [question |-> q, id |-> ""]

\* JSON.parse on the texts the model answers with: the documents below are
\* JSON, every other text raises a SyntaxError
JSONDocuments ==
  [text \in {"[]", "{}", "[{\"question\":\"Q\"}]"} |->
     IF text = "{}" THEN [isArray |-> FALSE, items |-> <<>>]
     ELSE IF text = "[]" THEN [isArray |-> TRUE, items |-> <<>>]
     ELSE [isArray |-> TRUE, items |-> <<Question("Q")>>]]

JSONparse(text) ==
  IF text \in DOMAIN JSONDocuments
  THEN [thrown |-> FALSE, isArray |-> JSONDocuments[text].isArray,
        items |-> JSONDocuments[text].items]
  ELSE [thrown |-> TRUE, isArray |-> FALSE, items |-> <<>>]

\* quiz.forEach: the question at index i gets the id "q" and i + 1
withIds(items) == [i \in 1..Len(items) |-> [items[i] EXCEPT !.id = "q" \o ToString(i)]]

quiz(answer) ==
  LET quizText == generateContent(answer)
      parsed == JSONparse(cleanText(quizText.text))
  IN IF quizText.thrown
     THEN Handled(quizText, 500, errorResponse(Or(Str(answer.text), Str("Failed to generate quiz.")).str))
     ELSE IF parsed.thrown \/ ~parsed.isArray
     THEN Handled(quizText, 500,
            errorResponse(Or(Str("Failed to parse quiz response. Please try again."),
                             Str("Failed to generate quiz.")).str))
     ELSE Handled(quizText, 200,
            successResponse([quiz |-> [questions |-> withIds(parsed.items)]]))

chat(answer) ==
  LET botResponse == generateContent(answer) IN
  IF botResponse.thrown
  THEN Handled(botResponse, 500, errorResponse("Failed to get chat response."))
  ELSE IF trim(botResponse.text) = ""
  THEN Handled(botResponse, 500, errorResponse("Empty response. Please try again."))
  ELSE Handled(botResponse, 200, successResponse([botResponse |-> Str(botResponse.text)]))

Operations == {"translate", "summarize", "quiz", "chat"}

\* app.post('/api/<operation>', ...)
Handler(operation, answer) ==
  CASE operation = "translate" -> translate(answer)
    [] operation = "summarize" -> summarize(answer)
    [] operation = "quiz" -> quiz(answer)
    [] operation = "chat" -> chat(answer)

\* fetch rejects: the request did not reach the backend
TransportFailure == [kind |-> "rejected", message |-> "Failed to fetch"]

\* an answer of something between the client and the backend: a status
\* that is not a success and a body that is not JSON
ErrorPage == Response(502, [json |-> FALSE, value |-> [text |-> "<html>Bad Gateway</html>"]])

\* the page of the client application, served for a path no route answers
IndexPage == Response(200, [json |-> FALSE, value |-> [text |-> "<!doctype html>"]])

Pages == {ErrorPage, IndexPage}

\* response.ok
ok(response) == response.status \in 200..299

\* the message of the SyntaxError that response.json() rejects with
SyntaxError == "Unexpected token < in JSON at position 0"

Failure(message) == [success |-> FALSE, error |-> message]

\* how the try block ends: with a return or with an error raised
Returns(value) == [raised |-> FALSE, value |-> value, message |-> ""]
Raises(message) == [raised |-> TRUE, value |-> Failure(Undefined), message |-> message]

\* the try block of callApi once fetch has settled
tryBlock(response) ==
  IF response.kind = "rejected" THEN Raises(response.message)
  ELSE IF ~response.body.json THEN Raises(SyntaxError)
  ELSE IF ~ok(response)
  THEN LET errorData == response.body.value IN
       Returns(Failure(Or(Get(errorData, "message"),
                          Str("HTTP error: " \o ToString(response.status)))))
  ELSE Returns(response.body.value)

\* the promise of callApi rejects
Rejects(message) == [rejected |-> message]

\* variant: the try block without its catch clause
envelopeOfUncaught(response) ==
  LET tried == tryBlock(response) IN
  IF tried.raised THEN Rejects(tried.message) ELSE tried.value

\* what callApi resolves to: the catch clause turns an error into a failure
envelopeOf(response) ==
  LET tried == tryBlock(response) IN
  IF tried.raised THEN Failure(Str(tried.message)) ELSE tried.value

Pending == [kind |-> "pending"]

\* callApi up to its await of fetch: one HTTP request is sent
callApi(operation, caller) ==
  [operation |-> operation, caller |-> caller, pc |-> "fetching", fetches |-> 1,
   answer |-> Pending, modelCalls |-> 0, response |-> Pending, result |-> Pending]

\* variant: callApi sends the request again when the first one failed
afterFetchRetrying(request) ==
  LET envelope == envelopeOf(request.response) IN
  IF ~envelope.success /\ request.fetches < 2
  THEN [request EXCEPT !.pc = "fetching", !.fetches = @ + 1, !.response = Pending]
  ELSE [request EXCEPT !.pc = "resolved", !.result = envelope]

\* callApi after its await of fetch: it returns the envelope
afterFetch(request) ==
  [request EXCEPT !.pc = "resolved", !.result = envelopeOf(request.response)]

\* the backend's handler after the request reached it
afterHandler(request, answer) ==
  LET handled == Handler(request.operation, answer) IN
  [request EXCEPT !.pc = "responded", !.answer = answer,
                  !.modelCalls = @ + handled.modelCalls,
                  !.response = handled.response]

\* what the model answers to the prompt of an operation: prose, nothing or
\* white space, an error, and to the quiz prompt JSON, fenced or not
Prose == {Answer(t) : t \in {"", " \n", "Bonjour"}} \cup {NoCandidates, ModelError}

QuizAnswers ==
  {Answer(t) : t \in {"", "Bonjour", "[]", "{}",
                      Fence \o "json\n[{\"question\":\"Q\"}]\n" \o Fence}}
    \cup {ModelError}

AnswersTo(operation) == IF operation = "quiz" THEN QuizAnswers ELSE Prose

MaxRequests == 2

\* one of the four wrappers is called
Request(operation) ==
  /\ Len(requests) < MaxRequests
  /\ requests' = Append(requests, callApi(operation, "caller"))
  /\ UNCHANGED <<content, view, calls, tables, panel>>

\* the request reaches the backend, whose handler answers it
Serve(r, answer) ==
  /\ requests[r].pc = "fetching"
  /\ requests' = [requests EXCEPT ![r] = afterHandler(@, answer)]
  /\ UNCHANGED <<content, view, calls, tables, panel>>

\* the request does not reach the backend
Drop(r) ==
  /\ requests[r].pc = "fetching"
  /\ requests' = [requests EXCEPT ![r].pc = "responded", ![r].response = TransportFailure]
  /\ UNCHANGED <<content, view, calls, tables, panel>>

\* the request is answered by a page instead of the backend
Intercept(r, page) ==
  /\ requests[r].pc = "fetching"
  /\ requests' = [requests EXCEPT ![r].pc = "responded", ![r].response = page]
  /\ UNCHANGED <<content, view, calls, tables, panel>>

\* callApi resumes and returns
Resolve(r) ==
  /\ requests[r].pc = "responded"
  /\ requests' = [requests EXCEPT ![r] = afterFetch(@)]
  /\ UNCHANGED <<content, view, calls, tables, panel>>

\* no document is rendered while the API is exercised
Idle(p) ==
  /\ content = Undefined /\ view = NotRendered /\ calls = NoCalls /\ tables = Tables
  /\ requests = NoRequests /\ panel = p

Network ==
  \E r \in DOMAIN requests :
    \/ \E answer \in AnswersTo(requests[r].operation) : Serve(r, answer)
    \/ Drop(r)
    \/ \E page \in Pages : Intercept(r, page)
    \/ Resolve(r)

----------------------------------------------------------------------------
(* C26: an empty answer of the model. *)

SpecBackend == Idle(NoPanel) /\ [][(\E operation \in Operations : Request(operation)) \/ Network]_vars

\* the model's answer held no text, or white space alone
EmptyAnswer(answer) == answer.kind # "thrown" /\ trim(generateContent(answer).text) = ""

\* the request was answered by the handler, on an empty answer of the model
AnsweredEmpty(request) ==
  request.pc \in {"responded", "resolved"} /\ request.answer # Pending
  /\ EmptyAnswer(request.answer)

\* a failure envelope: success false and an error message
IsFailure(envelope) ==
  ~envelope.success /\ Truthy(Get(envelope, "error"))

\* C26: for each of the four backend operations (translate, summarize,
\* quiz, chat), an empty or whitespace-only answer of the model yields a
\* failure envelope (success false with an error message), never a success
\* envelope with an empty payload.
C26_EmptyAnswerIsFailure ==
  \A r \in DOMAIN requests :
    AnsweredEmpty(requests[r]) => IsFailure(requests[r].response.body.value)

\* translate, quiz and chat do answer an empty text with a failure
C26_ThreeOperationsFail ==
  \A r \in DOMAIN requests :
    AnsweredEmpty(requests[r]) /\ requests[r].operation # "summarize"
      => /\ IsFailure(requests[r].response.body.value)
         /\ requests[r].response.status = 500

\* summarize answers an empty text with a success whose summary is empty
C26_SummarizeSucceedsEmpty ==
  \A r \in DOMAIN requests :
    AnsweredEmpty(requests[r]) /\ requests[r].operation = "summarize"
      => /\ requests[r].response.status = 200
         /\ requests[r].response.body.value = successResponse([summary |-> Str("")])
            \/ requests[r].response.body.value = successResponse([summary |-> Str(" \n")])

C26_EmptyAnswered ==
  \E r \in DOMAIN requests :
    AnsweredEmpty(requests[r]) /\ requests[r].operation # "summarize"

----------------------------------------------------------------------------
(* C27: the error text of the backend at the client. *)

\* the backend answered with a status that is no success and a failure
\* envelope, and callApi has returned
FailureAnswered(request) ==
  /\ request.pc = "resolved" /\ request.response.kind = "response"
  /\ ~ok(request.response) /\ request.response.body.json
  /\ IsFailure(request.response.body.value)

\* C27: when the backend answers a request with a non-success HTTP status
\* and a failure envelope carrying error text E, the client API call
\* resolves to a failure envelope whose error is E.
C27_BackendErrorTextKept ==
  \A r \in DOMAIN requests :
    FailureAnswered(requests[r])
      => /\ ~requests[r].result.success
         /\ requests[r].result.error = requests[r].response.body.value.error

\* the client's envelope is a failure, and its error is the status line
C27_StatusLineInstead ==
  \A r \in DOMAIN requests :
    FailureAnswered(requests[r])
      => requests[r].result = Failure(Str("HTTP error: 500"))

C27_FailureAnswered ==
  \E r \in DOMAIN requests :
    /\ FailureAnswered(requests[r])
    /\ requests[r].response.body.value.error =
         Str("Translation returned empty. Try different content or language.")

----------------------------------------------------------------------------
(* C28: callApi resolves, whatever fetch settled to. *)

\* the request failed: in transport, by its status, or by its body
Failed(request) ==
  \/ request.response.kind = "rejected"
  \/ ~ok(request.response)
  \/ ~request.response.body.json

\* an envelope with success false and an error string
FailureEnvelope(result) ==
  /\ DOMAIN result = {"success", "error"}
  /\ ~result.success
  /\ result.error.type = "string" /\ result.error.str # ""

\* C28: callApi never rejects: on success, on transport failure and on a
\* non-success HTTP status (also when the error body is not valid JSON) it
\* resolves to an envelope, and on every failure that envelope has success
\* false and carries an error string.
C28_AlwaysAnEnvelope ==
  \A r \in DOMAIN requests :
    requests[r].pc = "resolved"
      => /\ "success" \in DOMAIN requests[r].result
         /\ Failed(requests[r]) => FailureEnvelope(requests[r].result)
         /\ ~Failed(requests[r]) => requests[r].result = requests[r].response.body.value
         /\ ~requests[r].result.success => FailureEnvelope(requests[r].result)

\* a transport failure and an error page have both been resolved
C28_Witness ==
  /\ \E r \in DOMAIN requests :
       requests[r].pc = "resolved" /\ requests[r].response = TransportFailure
         /\ requests[r].result = Failure(Str("Failed to fetch"))
  /\ \E r \in DOMAIN requests :
       requests[r].pc = "resolved" /\ requests[r].response = ErrorPage
         /\ requests[r].result = Failure(Str(SyntaxError))

----------------------------------------------------------------------------
(* C29: nothing is tried again. *)

\* C29: no failure is retried automatically: each client API call issues
\* exactly one HTTP request and each invocation of a backend handler issues
\* at most one call of the model, whatever the outcome (transport error,
\* non-success status, empty response or unparsable quiz).
C29_OneRequestOneModelCall ==
  \A r \in DOMAIN requests :
    /\ requests[r].fetches = 1
    /\ requests[r].modelCalls <= 1
    /\ requests[r].answer # Pending => requests[r].modelCalls = 1
    /\ requests[r].pc = "resolved" /\ ~requests[r].result.success
         => requests[r].response # Pending

\* a failed call stays as it resolved: no step of the system acts on it
C29_FailureIsFinal ==
  [][\A r \in DOMAIN requests :
       requests[r].pc = "resolved" => requests'[r] = requests[r]]_vars

\* a quiz that did not parse and a transport failure have both been
\* returned to their callers as failures
C29_Witness ==
  /\ \E r \in DOMAIN requests :
       /\ requests[r].pc = "resolved" /\ requests[r].operation = "quiz"
       /\ requests[r].answer = Answer("Bonjour") /\ ~requests[r].result.success
       /\ requests[r].fetches = 1 /\ requests[r].modelCalls = 1
  /\ \E r \in DOMAIN requests :
       /\ requests[r].pc = "resolved" /\ requests[r].response = TransportFailure
       /\ requests[r].fetches = 1 /\ requests[r].modelCalls = 0

----------------------------------------------------------------------------
(* The chat panel: its state, its input area, and handleSendMessage, which *)
(* awaits chatWithDocument between its two halves.                         *)

\* the documents prop
documents == {[id |-> "d1", content |-> "Energy: $E = mc^2$"]}

\* the state of a panel that has just been put on the page
ChatPanel ==
  [mounted |-> TRUE, messages |-> <<>>, inputMessage |-> "", selectedDoc |-> "",
   isTyping |-> FALSE, error |-> Null]

Message(type, text) == [type |-> type, content |-> text]

\* the conversation and the input area are rendered for a selected document
inputShown(p) == p.selectedDoc # ""

\* variant: the textarea is never disabled
textareaAlwaysEnabled(p) == FALSE

\* the disabled attribute of the textarea
textareaDisabled(p) == p.isTyping

\* the disabled attribute of the send button
buttonDisabled(p) == trim(p.inputMessage) = "" \/ p.isTyping

\* handleSendMessage returns before it does anything
returnsEarly(p) ==
  \/ trim(p.inputMessage) = "" \/ p.selectedDoc = ""
  \/ ~\E document \in documents : document.id = p.selectedDoc

\* handleSendMessage up to its await: the user's message is appended, the
\* input is cleared, the panel is busy
beforeAwait(p) ==
  [p EXCEPT !.messages = Append(@, Message("user", p.inputMessage)),
            !.inputMessage = "", !.isTyping = TRUE]

\* handleSendMessage after its await: the bot's message on success, the
\* error otherwise, and the panel is no longer busy
afterAwait(p, response) ==
  IF ~response.success \/ "data" \notin DOMAIN response
  THEN [p EXCEPT !.error = Or(Or(Get(response, "error"), Str("Chat failed")),
                             Str("Failed to get bot response. Please try again.")),
                 !.isTyping = FALSE]
  ELSE [p EXCEPT !.messages = Append(@, Message("bot", response.data.botResponse.str)),
                 !.error = Null, !.isTyping = FALSE]

handleSendMessage ==
  IF returnsEarly(panel) THEN UNCHANGED <<panel, requests>>
  ELSE /\ Len(requests) < MaxRequests
       /\ panel' = beforeAwait(panel)
       /\ requests' = Append(requests, callApi("chat", "panel"))

\* what the user types
Typed == {"", "  ", "why?", "$x^2$"}

\* the select: a document, or "Choose a document..."
Select(id) ==
  /\ panel.mounted
  /\ panel' = [panel EXCEPT !.selectedDoc = id]
  /\ UNCHANGED <<content, view, calls, tables, requests>>

\* the textarea's onChange
Type(text) ==
  /\ panel.mounted /\ inputShown(panel) /\ ~textareaDisabled(panel)
  /\ panel' = [panel EXCEPT !.inputMessage = text]
  /\ UNCHANGED <<content, view, calls, tables, requests>>

\* the send button's onClick
Click ==
  /\ panel.mounted /\ inputShown(panel) /\ ~buttonDisabled(panel)
  /\ handleSendMessage
  /\ UNCHANGED <<content, view, calls, tables>>

\* the textarea's onKeyPress, on Enter without Shift
Enter ==
  /\ panel.mounted /\ inputShown(panel) /\ ~textareaDisabled(panel)
  /\ handleSendMessage
  /\ UNCHANGED <<content, view, calls, tables>>

\* the await of chatWithDocument ends and handleSendMessage goes on
Resume(r) ==
  /\ r \in DOMAIN requests
  /\ requests[r].pc = "resolved" /\ requests[r].caller = "panel"
  /\ panel' = afterAwait(panel, requests[r].result)
  /\ requests' = [requests EXCEPT ![r].pc = "returned"]
  /\ UNCHANGED <<content, view, calls, tables>>

User ==
  \/ \E document \in documents : Select(document.id)
  \/ Select("")
  \/ \E text \in Typed : Type(text)
  \/ Click
  \/ Enter

SpecChat == Idle(ChatPanel) /\ [][User \/ Network \/ \E r \in DOMAIN requests : Resume(r)]_vars

----------------------------------------------------------------------------
(* C30: one chat request at a time. *)

\* the request's send has not finished: handleSendMessage is at its await
InFlight == {r \in DOMAIN requests : requests[r].pc # "returned"}

Of(type) == {i \in DOMAIN panel.messages : panel.messages[i].type = type}

Succeeded == {r \in DOMAIN requests : requests[r].pc = "returned" /\ requests[r].result.success}

\* at most one request in flight, the panel busy exactly while it is, one
\* user message for each send, one bot message for each success, and each
\* bot message right after a user message
OneAtATime ==
  /\ Cardinality(InFlight) <= 1
  /\ panel.isTyping <=> InFlight # {}
  /\ Cardinality(Of("user")) = Len(requests)
  /\ Cardinality(Of("bot")) = Cardinality(Succeeded)
  /\ \A i \in Of("bot") : i > 1 /\ panel.messages[i - 1].type = "user"

\* every fetch settles, and the continuation of an await is run
SpecChatFair ==
  /\ SpecChat
  /\ \A r \in 1..MaxRequests :
       /\ WF_vars(r \in DOMAIN requests /\ (Drop(r) \/ (\E answer \in Prose : Serve(r, answer))))
       /\ WF_vars(r \in DOMAIN requests /\ Resolve(r))
       /\ WF_vars(Resume(r))

====
